---- MODULE Spec2Model ----
(***************************************************************************)
(* Request gateway (callAPI) of the moderation bot, src/unnamed/part_004,  *)
(* together with its two callers checkTextContent and checkImageContent.   *)
(*                                                                         *)
(* Time is kept relative: every pending setTimeout is a remaining delay    *)
(* and every timestamp the code compares with Date.now() is the time       *)
(* elapsed since it was taken.  The event loop runs a callback to its next *)
(* await in one step; promise reactions (microtasks) run before time       *)
(* passes or another event is delivered.                                   *)
(***************************************************************************)
EXTENDS Integers, Sequences, FiniteSets, TLC

\* ---------------------------------------------------------------- bounds
NTasks == 2           \* caller invocations (each submits at most one task)
TimeStep == 500       \* granularity of the passage of time, in ms
MaxAbandoned == 1     \* timed-out external calls that may still be pending
MaxTicks == 3         \* firings of the reconciler's interval timer
MaxDeletes == 1       \* status messages deleted by somebody else
Horizon == 3000       \* time the reconciler is observed for, in ms
RStep == 500          \* granularity of the passage of that time, in ms
MaxStarts == 3        \* calls of src/main.mjs's updateRealtimeTimeout

\* ------------------------------------------------------ program constants
MIN_REQUEST_INTERVAL == 1000
maxRetries == 5
BACKOFF_START == 1000
BACKOFF_CAP == 30000
PERSISTENT_RETRIES == 3
RETRY_DELAY == 1000
CALL_TIMEOUT == 15000

Tasks == 1..NTasks

\* The authors of the messages, and what a checkTextContent invocation
\* holds of its arguments and its const now.
Users == {"u1", "u2"}
NoStart == [user |-> "none", at |-> 0]
NoAuthor == [bot |-> FALSE, guild |-> FALSE, username |-> "none", member |-> "none"]

Min(a, b) == IF a < b THEN a ELSE b
Max(a, b) == IF a > b THEN a ELSE b

\* ------------------------------------------------------------- strings
\* A string is a sequence of words; includes() is a contiguous-subsequence
\* test and toLowerCase() maps every word.
ToLowerWord(w) ==
  CASE w = "Too" -> "too"
    [] w = "Many" -> "many"
    [] w = "Requests" -> "requests"
    [] w = "Quota" -> "quota"
    [] w = "Rate" -> "rate"
    [] w = "API" -> "api"
    [] w = "Timeout" -> "timeout"
    [] w = "BAKA" -> "baka"
    [] OTHER -> w

ToLowerCase(s) == [i \in DOMAIN s |-> ToLowerWord(s[i])]

Includes(s, sub) ==
  \E k \in 0..(Len(s) - Len(sub)) :
     \A i \in 1..Len(sub) : s[k + i] = sub[i]

\* -------------------------------------------------------------- errors
NoError == [message |-> <<>>, code |-> 0]
MkError(m, c) == [message |-> m, code |-> c]

\* Errors the classifier collaborator can answer with (code is undefined).
ApiErrors ==
  { MkError(<<"fetch", "failed">>, 0),
    MkError(<<"429", "Too", "Many", "Requests">>, 0),
    MkError(<<"403", "Quota", "exceeded">>, 0),
    MkError(<<"429", "Too", "Many", "Requests", "quota", "exceeded">>, 0) }

\* new Error("API Timeout"), and a timeout error that reads as a rate limit.
TimeoutErrorRateLimit == MkError(<<"429", "API", "Timeout">>, 0)
TimeoutError == MkError(<<"API", "Timeout">>, 0)
PersistentError == MkError(<<"Rate", "limit", "persistent">>, 429)
QuotaError == MkError(<<"Quota", "exceeded">>, 403)
ExhaustedError == MkError(<<"API", "call", "failed", "after", "retries">>, 0)

IsRateLimit(msg) ==
  Includes(msg, <<"429">>) \/ Includes(ToLowerCase(msg), <<"too", "many", "requests">>)

IsQuota(msg) ==
  Includes(ToLowerCase(msg), <<"quota">>) \/ Includes(ToLowerCase(msg), <<"quotaexceeded">>)

\* The marks the failure taxonomy goes by: a rate-limit error carries "429"
\* or "too many requests", a quota error carries "quota".
MentionsRateLimit(msg) ==
  \E i \in DOMAIN msg : msg[i] = "429"
    \/ (i + 2 \in DOMAIN msg /\ <<ToLowerWord(msg[i]), ToLowerWord(msg[i + 1]), ToLowerWord(msg[i + 2])>> = <<"too", "many", "requests">>)

MentionsQuota(msg) == \E i \in DOMAIN msg : ToLowerWord(msg[i]) = "quota"

\* ------------------------------------------------------------- handles
NoResult == [task |-> 0, rep |-> <<>>]
NoHandle == [state |-> "none", result |-> NoResult, error |-> NoError]
Pending == [state |-> "pending", result |-> NoResult, error |-> NoError]
Resolved(r) == [state |-> "resolved", result |-> r, error |-> NoError]
Rejected(e) == [state |-> "rejected", result |-> NoResult, error |-> e]

Settled(h) == h.state \in {"resolved", "rejected"}

\* --------------------------------------------------------------- inputs
BAD_KEYWORDS == {"shine", "baka"}

Inputs ==
  { [kind |-> "text", text |-> <<"you", "BAKA">>],
    [kind |-> "image", text |-> <<>>] }

NoInput == [kind |-> "none", text |-> <<>>]

\* simpleKeywordCheck(text); the variant compares without toLowerCase().
simpleKeywordCheckExact(text) ==
  IF \E k \in BAD_KEYWORDS : Includes(text, <<k>>)
    THEN [isMalicious |-> TRUE, reason |-> "keyword", skipped |-> FALSE]
    ELSE [isMalicious |-> FALSE, reason |-> "no keyword", skipped |-> FALSE]
simpleKeywordCheck(text) ==
  IF \E k \in BAD_KEYWORDS : Includes(ToLowerCase(text), <<k>>)
    THEN [isMalicious |-> TRUE, reason |-> "keyword", skipped |-> FALSE]
    ELSE [isMalicious |-> FALSE, reason |-> "no keyword", skipped |-> FALSE]

\* The reply of the external classifier to the payload of a task.
ClassifierReply(inp) ==
  IF inp.kind = "text" /\ Includes(inp.text, <<"BAKA">>)
    THEN <<"hantei:", "akushitsu">>
    ELSE <<"hantei:", "anzen">>

ApiResult(t, inp) == [task |-> t, rep |-> ClassifierReply(inp)]

ParseVerdict(res) ==
  [isMalicious |-> Includes(res.rep, <<"hantei:", "akushitsu">>),
   reason |-> "ai", skipped |-> FALSE]

NoRet == [isMalicious |-> FALSE, reason |-> "none", skipped |-> FALSE]

VARIABLES
  requestQueue,        \* callbacks chained on requestQueue, not yet started
  running,             \* task whose chained callback is executing (0: none)
  gpc,                 \* where the executing callback is suspended
  retries,             \* local of the executing callback
  backoff,             \* local of the executing callback
  timer,               \* remaining delay of the callback's pending setTimeout
  raceTimer,           \* remaining delay of the 15 s timeout of Promise.race
  lastRequestElapsed,  \* Date.now() - lastRequestTime, saturating
  abandoned,           \* external calls that lost the race and still pend
  handle,              \* promise returned by callAPI, per task
  aiCheckEnabled,      \* written here by checkTextContent only
  cpc,                 \* position of each caller invocation
  input,               \* argument of each caller invocation
  ret,                 \* value returned by each caller invocation
  recentChecks,        \* userId -> timestamp of the Map recentChecks (0: no entry)
  started,             \* user and const now of each checkTextContent invocation
  lastSubmitAt,        \* history: when callAPI was last called for a user (0: never)
  voiceUserAICheck,    \* set by the voice-ai command
  author,              \* author of the message of each messageCreate event
  \* history
  submitted,           \* tasks in the order callAPI was called
  \* history of the latest chained callback, kept until the caller has
  \* taken the outcome
  logTask,             \* task the callback was chained for
  attemptLog,          \* what each finished attempt logged
  lastError,           \* the error caught by the latest failed attempt
  dispatched,          \* number of attempts the callback has started
  dispatchElapsed,     \* time since the latest dispatch began, saturating
  lastGap              \* time between the two latest dispatch starts

\* =========================================================== reconciler
\* updateRealtimeTimeout and ensureTimeoutStatusMessage.  Here time is
\* absolute, as Date.now() returns it, and starts at Epoch.
Epoch == 100000
TICK_INTERVAL == 1000
EDIT_INTERVAL == 700
EDIT_COOLDOWN == 5000
FULL_FETCH_INTERVAL == 60000
FETCH_BACKOFF_START == 2000

Ticks == 1..MaxTicks
\* One message a previous run may have left, one the startup may send and
\* one each tick may send.
MessageIds == 1..(MaxTicks + 2)

\* guild.members.cache in iteration order, and the
\* communicationDisabledUntilTimestamp each member may carry (0: none).
MemberCache == <<"a", "b", "c">>
MemberTags == {MemberCache[i] : i \in DOMAIN MemberCache}
Snapshots == { [m \in MemberTags |-> IF m = "a" THEN Epoch + 1500 ELSE 0] }

\* Math.ceil(x / 1000) and Math.floor(x / 1000); the variant rounds a whole
\* number of seconds up as well.
FloorSecondsPlusOne(x) == IF x >= 0 THEN x \div 1000 + 1 ELSE -((-x) \div 1000)
CeilSeconds(x) == IF x > 0 THEN (x + 999) \div 1000 ELSE -((-x) \div 1000)
FloorSeconds(x) == x \div 1000

\* getTimeoutRemaining(member): null is 0.
getTimeoutRemaining(end, t) ==
  LET remain == CeilSeconds(end - t) IN IF remain > 0 THEN remain ELSE 0

formatTime(seconds) ==
  LET h == seconds \div 3600
      m == (seconds % 3600) \div 60
      sec == seconds % 60
  IN  IF h > 0 THEN [form |-> "hms", h |-> h, m |-> m, s |-> sec]
      ELSE IF m > 0 THEN [form |-> "ms", h |-> 0, m |-> m, s |-> sec]
      ELSE [form |-> "s", h |-> 0, m |-> 0, s |-> sec]

\* .sort((a, b) => b.remain - a.remain): stable, descending; the variant
\* puts a record before the records of equal remaining time.
InsertByRemainUnstable(e, q) ==
  LET k == Cardinality({i \in 1..Len(q) : q[i].remain > e.remain})
  IN  SubSeq(q, 1, k) \o <<e>> \o SubSeq(q, k + 1, Len(q))
InsertByRemain(e, q) ==
  LET k == Cardinality({i \in 1..Len(q) : q[i].remain >= e.remain})
  IN  SubSeq(q, 1, k) \o <<e>> \o SubSeq(q, k + 1, Len(q))

RECURSIVE SortByRemain(_)
SortByRemain(q) ==
  IF q = <<>> THEN <<>>
  ELSE InsertByRemain(q[Len(q)], SortByRemain(SubSeq(q, 1, Len(q) - 1)))

\* The members of the cache with a remaining timeout, in cache order.
TimeoutUsers(exp, t) ==
  SelectSeq([i \in DOMAIN MemberCache |->
               [member |-> MemberCache[i],
                remain |-> getTimeoutRemaining(exp[MemberCache[i]], t)]],
            LAMBDA x : x.remain # 0)

\* A message text: its heading, its numbered lines and the second shown
\* after "最終更新".
NoText == [head |-> "none", entries |-> <<>>, stamp |-> 0]
StartText == [head |-> "start", entries |-> <<>>, stamp |-> 0]

\* The text a tick renders at time t from the cached expiries exp; the
\* variant renders without the time of the update.
RenderUnstamped(exp, t) ==
  LET us == SortByRemain(TimeoutUsers(exp, t)) IN
  [head |-> IF us = <<>> THEN "empty" ELSE "list",
   entries |-> [i \in DOMAIN us |->
                  [pos |-> i, tag |-> us[i].member, time |-> formatTime(us[i].remain),
                   bar |-> Max(1, us[i].remain \div 60)]],
   stamp |-> 0]
Render(exp, t) ==
  LET us == SortByRemain(TimeoutUsers(exp, t)) IN
  [head |-> IF us = <<>> THEN "empty" ELSE "list",
   entries |-> [i \in DOMAIN us |->
                  [pos |-> i, tag |-> us[i].member, time |-> formatTime(us[i].remain),
                   bar |-> Max(1, us[i].remain \div 60)]],
   stamp |-> FloorSeconds(t)]

NoEdit == [tick |-> 0, text |-> NoText]
NoRender == [tick |-> 0, records |-> <<>>, text |-> NoText]

VARIABLES
  now,                   \* Date.now()
  statusStore,           \* messageId in timeoutStatus.json (0: no file)
  live,                  \* status messages that exist in the channel
  content,               \* content of each status message
  sent,                  \* status messages sent so far
  expiry,                \* communicationDisabledUntilTimestamp per member
  upc,                   \* position of updateRealtimeTimeout
  usaved,                \* savedId of its ensureTimeoutStatusMessage call
  timeoutStatusMessage,  \* id of the message object held (0: null)
  updateInterval,        \* whether the interval timer is set
  tickDue,               \* when the interval timer fires next
  lastFullFetch,
  fetchBackoff,
  spc,                   \* position of the SIGTERM handler
  lastEditTime,
  editQueue,             \* callbacks chained on editQueue, not yet started
  epc,                   \* where the executing edit callback is suspended
  cur,                   \* the edit the executing callback carries
  editTarget,            \* message the outstanding edit call addresses
  editDue,               \* when the callback's pending setTimeout fires
  fired,                 \* firings of the interval timer so far
  tpc,                   \* position of each tick callback
  ttext,                 \* text held by each tick callback across an await
  tsaved,                \* savedId of its ensureTimeoutStatusMessage call
  \* history
  lastRender,            \* the latest render: its tick, live records and text
  editsInFlight,         \* edit calls started and not yet answered
  lastStartTick,         \* tick of the edit call started latest
  lastEditStart,         \* when the latest edit call was started
  editGap,               \* time between the two latest edit call starts
  editAnswer,            \* how the latest edit call was answered (0: done)
  deletes,
  \* src/main.mjs
  updateIntervalId,      \* the timer its updateInterval holds (0: null)
  closure                \* the locals of each call of its updateRealtimeTimeout

surfaceVars == <<statusStore, live, content, sent>>
processVars == <<upc, usaved, timeoutStatusMessage, updateInterval, tickDue, lastFullFetch,
                 fetchBackoff, spc>>
editVars == <<lastEditTime, editQueue, epc, cur, editTarget, editDue>>
tickVars == <<fired, tpc, ttext, tsaved, lastRender>>
editHistoryVars == <<editsInFlight, lastStartTick, lastEditStart, editGap, editAnswer>>
restartVars == <<updateIntervalId, closure>>
reconcilerVars == <<now, expiry, surfaceVars, processVars, editVars, tickVars,
                    editHistoryVars, deletes, restartVars>>

gatewayVars == <<requestQueue, running, gpc, retries, backoff, timer, raceTimer,
                 lastRequestElapsed, abandoned, handle>>
cooldownVars == <<recentChecks, started, lastSubmitAt>>
handlerVars == <<voiceUserAICheck, author>>
callerVars == <<aiCheckEnabled, cpc, input, ret, cooldownVars, handlerVars>>
historyVars == <<submitted, logTask, attemptLog, lastError, dispatched, dispatchElapsed, lastGap>>
vars == <<gatewayVars, callerVars, historyVars, reconcilerVars>>

ClockCap == MIN_REQUEST_INTERVAL

\* Module state of a process that has just started.
ProcessStart ==
  /\ upc = "boot"
  /\ usaved = 0
  /\ timeoutStatusMessage = 0
  /\ updateInterval = FALSE
  /\ tickDue = 0
  /\ lastFullFetch = 0
  /\ fetchBackoff = FETCH_BACKOFF_START
  /\ spc = "idle"
  /\ lastEditTime = 0
  /\ editQueue = <<>>
  /\ epc = "idle"
  /\ cur = NoEdit
  /\ editTarget = 0
  /\ editDue = 0

\* What a process finds when it starts: nothing, or the status message a
\* previous run of the process has sent, persisted and edited.
NoSurface ==
  [statusStore |-> 0, live |-> {}, sent |-> 0,
   content |-> [i \in MessageIds |-> NoText]]
LeftSurface ==
  [statusStore |-> 1, live |-> {1}, sent |-> 1,
   content |-> [i \in MessageIds |-> IF i = 1 THEN [NoText EXCEPT !.head = "empty"] ELSE NoText]]

SurfaceIs(f) ==
  /\ statusStore = f.statusStore
  /\ live = f.live
  /\ sent = f.sent
  /\ content = f.content

\* The calls of src/main.mjs's updateRealtimeTimeout, in the order they are
\* made, and the locals of a call that has not been made.
Starts == 1..MaxStarts
NoClosure ==
  [pc |-> "unused", timer |-> FALSE, tickDue |-> 0, refreshing |-> {},
   lastFullFetch |-> 0, lastEditTime |-> 0, editQueue |-> <<>>, epc |-> "idle",
   cur |-> NoText, editDue |-> 0, target |-> 0]

ReconcilerStart ==
  /\ now = Epoch
  /\ ProcessStart
  /\ fired = 0
  /\ tpc = [k \in Ticks |-> "unfired"]
  /\ ttext = [k \in Ticks |-> NoText]
  /\ tsaved = [k \in Ticks |-> 0]
  /\ lastRender = NoRender
  /\ editsInFlight = 0
  /\ lastStartTick = 0
  /\ lastEditStart = 0
  /\ editGap = EDIT_INTERVAL
  /\ editAnswer = 0
  /\ deletes = 0
  /\ updateIntervalId = 0
  /\ closure = [g \in Starts |-> NoClosure]

\* recentChecks = new Map(): no user has been checked.
CooldownStart ==
  /\ recentChecks = [u \in Users |-> 0]
  /\ started = [t \in Tasks |-> NoStart]
  /\ lastSubmitAt = [u \in Users |-> 0]
  /\ voiceUserAICheck = FALSE
  /\ author = [t \in Tasks |-> NoAuthor]

GatewayStart ==
  /\ requestQueue = <<>>
  /\ running = 0
  /\ gpc = "idle"
  /\ retries = 0
  /\ backoff = BACKOFF_START
  /\ timer = 0
  /\ raceTimer = 0
  /\ lastRequestElapsed = ClockCap
  /\ abandoned = 0
  /\ handle = [t \in Tasks |-> NoHandle]
  /\ aiCheckEnabled = TRUE
  /\ CooldownStart
  /\ cpc = [t \in Tasks |-> "new"]
  /\ input = [t \in Tasks |-> NoInput]
  /\ ret = [t \in Tasks |-> NoRet]
  /\ submitted = <<>>
  /\ logTask = 0
  /\ attemptLog = <<>>
  /\ lastError = NoError
  /\ dispatched = 0
  /\ dispatchElapsed = ClockCap
  /\ lastGap = ClockCap

Init ==
  /\ GatewayStart
  /\ ReconcilerStart
  /\ SurfaceIs(NoSurface)
  /\ expiry = [m \in MemberTags |-> 0]

\* ------------------------------------------------------------ scheduling
\* A promise reaction is ready: the next chained callback, or the
\* continuation of a caller whose handle has settled.
MicrotaskPending ==
  \/ running = 0 /\ requestQueue # <<>>
  \/ \E t \in Tasks : cpc[t] = "awaiting" /\ Settled(handle[t])

\* ----------------------------------------------------- gateway: callAPI
Enqueue(q, t) == Append(q, t)
NextTask(q) == Head(q)

\* setTimeout(r, MIN_REQUEST_INTERVAL - diff)
SpacingWaitNone(diff) == 0
SpacingWait(diff) == MIN_REQUEST_INTERVAL - diff

\* backoff = Math.min(backoff * 2, 30000)
NextBackoffFlat(b) == b
NextBackoff(b) == Min(b * 2, BACKOFF_CAP)

\* let retries = 0; let backoff = 1000;  (r, b: what the previous callback left)
InitialRetriesShared(r) == r
InitialRetries(r) == 0
InitialBackoff(b) == BACKOFF_START

\* if (retries >= 3): the rate limit is taken to be persistent.
PersistentOffByOne(r) == r > PERSISTENT_RETRIES
Persistent(r) == r >= PERSISTENT_RETRIES

\* else if (retries >= maxRetries)
ExhaustedOffByOne(r) == r > maxRetries
Exhausted(r) == r >= maxRetries

\* resolve / reject of the promise callAPI created for task t; settling a
\* settled promise has no effect.
SettleLatest(hs, t, h) ==
  [hs EXCEPT ![submitted[Len(submitted)]] = IF @.state = "pending" THEN h ELSE @]
Settle(hs, t, h) == [hs EXCEPT ![t] = IF @.state = "pending" THEN h ELSE @]

\* What the log line of an attempt shows: whether it succeeded, which
\* marks the caught message carries, and the delay then waited.
LogEntry(ok, msg, wait) ==
  [ok |-> ok, rate |-> MentionsRateLimit(msg), quota |-> MentionsQuota(msg), wait |-> wait]

\* lastRequestTime = Date.now(); apiFunc() raced against the timeout.
Dispatch(t, r, b, n) ==
  /\ gpc' = "calling"
  /\ running' = t
  /\ retries' = r
  /\ backoff' = b
  /\ timer' = 0
  /\ raceTimer' = CALL_TIMEOUT
  /\ lastRequestElapsed' = 0
  /\ dispatched' = n + 1
  /\ lastGap' = dispatchElapsed
  /\ dispatchElapsed' = 0
  /\ UNCHANGED <<handle, abandoned>>

\* Top of the try block: wait out the rest of the minimum interval.
AttemptStart(t, r, b, n) ==
  IF lastRequestElapsed < MIN_REQUEST_INTERVAL
    THEN /\ gpc' = "spacing"
         /\ running' = t
         /\ retries' = r
         /\ backoff' = b
         /\ timer' = SpacingWait(lastRequestElapsed)
         /\ dispatched' = n
         /\ UNCHANGED <<raceTimer, lastRequestElapsed, handle, abandoned,
                        lastGap, dispatchElapsed>>
    ELSE Dispatch(t, r, b, n)

\* The chained callback returns after settling the handle with h.
Finish(t, h, r, b, n, ab) ==
  /\ gpc' = "idle"
  /\ running' = 0
  /\ retries' = r
  /\ backoff' = b
  /\ timer' = 0
  /\ raceTimer' = 0
  /\ handle' = Settle(handle, t, h)
  /\ abandoned' = ab
  /\ dispatched' = n
  /\ UNCHANGED <<lastRequestElapsed, lastGap, dispatchElapsed>>

\* while (retries < maxRetries) { ... } reject("API call failed after retries")
LoopHead(t, r, b, n) ==
  IF r < maxRetries
    THEN AttemptStart(t, r, b, n)
    ELSE Finish(t, Rejected(ExhaustedError), r, b, n, abandoned)

\* The callback of a task, were it run without being chained: it starts
\* although the callback of an earlier task has not returned.
TaskStartUnchained ==
  /\ requestQueue # <<>>
  /\ LET t == NextTask(requestQueue) IN
       /\ requestQueue' = SelectSeq(requestQueue, LAMBDA x : x # t)
       /\ logTask' = t
       /\ LoopHead(t, InitialRetries(retries), InitialBackoff(backoff), 0)
  /\ attemptLog' = <<>>
  /\ lastError' = NoError
  /\ UNCHANGED <<callerVars, submitted>>
  /\ UNCHANGED reconcilerVars

\* requestQueue.then(async () => { ... }) starts running.
TaskStart ==
  /\ running = 0
  /\ requestQueue # <<>>
  /\ LET t == NextTask(requestQueue) IN
       /\ requestQueue' = SelectSeq(requestQueue, LAMBDA x : x # t)
       /\ logTask' = t
       /\ LoopHead(t, InitialRetries(retries), InitialBackoff(backoff), 0)
  /\ attemptLog' = <<>>
  /\ lastError' = NoError
  /\ UNCHANGED <<callerVars, submitted>>
  /\ UNCHANGED reconcilerVars

SpacingDone ==
  /\ gpc = "spacing"
  /\ timer = 0
  /\ ~MicrotaskPending
  /\ Dispatch(running, retries, backoff, dispatched)
  /\ UNCHANGED <<requestQueue, callerVars, submitted, logTask, attemptLog, lastError>>
  /\ UNCHANGED reconcilerVars

\* The external call answers first: resolve(r); return.
ApiSuccess ==
  /\ gpc = "calling"
  /\ ~MicrotaskPending
  /\ Finish(running, Resolved(ApiResult(running, input[running])), retries, backoff,
            dispatched, abandoned)
  /\ attemptLog' = Append(attemptLog, LogEntry(TRUE, <<>>, 0))
  /\ UNCHANGED <<requestQueue, callerVars, submitted, logTask, lastError>>
  /\ UNCHANGED reconcilerVars

\* catch (err): classification of a failed attempt.
OnFailure(t, err, ab) ==
  LET r == retries + 1
      msg == err.message
  IN
  /\ lastError' = err
  /\ IF IsRateLimit(msg)
       THEN /\ gpc' = "backoff"
            /\ retries' = r
            /\ timer' = backoff
            /\ raceTimer' = 0
            /\ abandoned' = ab
            /\ attemptLog' = Append(attemptLog, LogEntry(FALSE, msg, backoff))
            /\ UNCHANGED <<running, backoff, lastRequestElapsed, handle,
                           dispatched, lastGap, dispatchElapsed>>
       ELSE IF IsQuota(msg)
         THEN /\ Finish(t, Rejected(QuotaError), r, backoff, dispatched, ab)
              /\ attemptLog' = Append(attemptLog, LogEntry(FALSE, msg, 0))
       ELSE IF Exhausted(r)
         THEN /\ Finish(t, Rejected(err), r, backoff, dispatched, ab)
              /\ attemptLog' = Append(attemptLog, LogEntry(FALSE, msg, 0))
       ELSE /\ gpc' = "pause"
            /\ retries' = r
            /\ timer' = RETRY_DELAY
            /\ raceTimer' = 0
            /\ abandoned' = ab
            /\ attemptLog' = Append(attemptLog, LogEntry(FALSE, msg, RETRY_DELAY))
            /\ UNCHANGED <<running, backoff, lastRequestElapsed, handle,
                           dispatched, lastGap, dispatchElapsed>>

\* The external call answers first, with an error.
ApiFailure(err) ==
  /\ gpc = "calling"
  /\ ~MicrotaskPending
  /\ OnFailure(running, err, abandoned)
  /\ UNCHANGED <<requestQueue, callerVars, submitted, logTask>>
  /\ UNCHANGED reconcilerVars

\* The 15 s timer wins the race; the external call itself stays pending.
ApiTimeout ==
  /\ gpc = "calling"
  /\ raceTimer = 0
  /\ ~MicrotaskPending
  /\ OnFailure(running, TimeoutError, Min(abandoned + 1, MaxAbandoned))
  /\ UNCHANGED <<requestQueue, callerVars, submitted, logTask>>
  /\ UNCHANGED reconcilerVars

\* An external call that lost the race finally answers; nobody listens.
AbandonedCompletes ==
  /\ abandoned > 0
  /\ ~MicrotaskPending
  /\ abandoned' = abandoned - 1
  /\ UNCHANGED <<requestQueue, running, gpc, retries, backoff, timer, raceTimer,
                 lastRequestElapsed, handle, callerVars, historyVars>>
  /\ UNCHANGED reconcilerVars

\* After the rate-limit backoff.
BackoffDone ==
  /\ gpc = "backoff"
  /\ timer = 0
  /\ ~MicrotaskPending
  /\ LET b == NextBackoff(backoff) IN
       IF Persistent(retries)
         THEN Finish(running, Rejected(PersistentError), retries, b, dispatched, abandoned)
         ELSE LoopHead(running, retries, b, dispatched)
  /\ UNCHANGED <<requestQueue, callerVars, submitted, logTask, attemptLog, lastError>>
  /\ UNCHANGED reconcilerVars

\* After the fixed wait that follows a transient failure.
PauseDone ==
  /\ gpc = "pause"
  /\ timer = 0
  /\ ~MicrotaskPending
  /\ LoopHead(running, retries, backoff, dispatched)
  /\ UNCHANGED <<requestQueue, callerVars, submitted, logTask, attemptLog, lastError>>
  /\ UNCHANGED reconcilerVars

\* ------------------------------------------------------------- callers
\* Invocations are numbered in the order they arrive.
NextInvocation(t) == \A u \in Tasks : u < t => cpc[u] # "new"

\* callAPI(apiFunc): chain the task and hand back its promise.
Submit(t) ==
  /\ requestQueue' = Enqueue(requestQueue, t)
  /\ handle' = [handle EXCEPT ![t] = Pending]
  /\ submitted' = Append(submitted, t)
  /\ cpc' = [cpc EXCEPT ![t] = "awaiting"]

CooldownSkip == [isMalicious |-> FALSE, reason |-> "cooldown", skipped |-> TRUE]
ImageError == [isMalicious |-> FALSE, reason |-> "error", skipped |-> FALSE]

\* checkTextContent(text, userId) up to its await.  Whether the user is
\* inside the cooldown window is an input here.
CheckTextStart(t, inp, cooling) ==
  /\ cpc[t] = "new"
  /\ NextInvocation(t)
  /\ inp.kind = "text"
  /\ ~MicrotaskPending
  /\ input' = [input EXCEPT ![t] = inp]
  /\ IF ~aiCheckEnabled
       THEN /\ ret' = [ret EXCEPT ![t] = simpleKeywordCheck(inp.text)]
            /\ cpc' = [cpc EXCEPT ![t] = "returned"]
            /\ UNCHANGED <<requestQueue, handle, submitted>>
       ELSE IF cooling
         THEN /\ ret' = [ret EXCEPT ![t] = CooldownSkip]
              /\ cpc' = [cpc EXCEPT ![t] = "returned"]
              /\ UNCHANGED <<requestQueue, handle, submitted>>
         ELSE /\ Submit(t)
              /\ UNCHANGED ret
  /\ UNCHANGED <<running, gpc, retries, backoff, timer, raceTimer, lastRequestElapsed,
                 abandoned, aiCheckEnabled, cooldownVars, handlerVars, logTask, attemptLog, lastError,
                 dispatched, dispatchElapsed, lastGap>>
  /\ UNCHANGED reconcilerVars

\* The caller of task t has taken the outcome: the history of the callback
\* of t is dropped, unless the next callback has already started.
OutcomeTaken(t) ==
  IF logTask = t
    THEN /\ logTask' = 0
         /\ attemptLog' = <<>>
         /\ lastError' = NoError
         /\ dispatched' = 0
    ELSE UNCHANGED <<logTask, attemptLog, lastError, dispatched>>

\* The catch block of checkTextContent: which rejections disable the AI check.
TextDisables(err) ==
  \/ err.code = 429
  \/ Includes(ToLowerCase(err.message), <<"rate", "limit">>)
  \/ Includes(ToLowerCase(err.message), <<"quota">>)

\* checkTextContent after its await.
CheckTextResume(t) ==
  /\ cpc[t] = "awaiting"
  /\ input[t].kind = "text"
  /\ Settled(handle[t])
  /\ IF handle[t].state = "resolved"
       THEN /\ ret' = [ret EXCEPT ![t] = ParseVerdict(handle[t].result)]
            /\ UNCHANGED aiCheckEnabled
       ELSE /\ ret' = [ret EXCEPT ![t] = simpleKeywordCheck(input[t].text)]
            /\ aiCheckEnabled' = IF TextDisables(handle[t].error) THEN FALSE ELSE aiCheckEnabled
  /\ cpc' = [cpc EXCEPT ![t] = "returned"]
  /\ OutcomeTaken(t)
  /\ UNCHANGED <<gatewayVars, input, cooldownVars, handlerVars, submitted, dispatchElapsed, lastGap>>
  /\ UNCHANGED reconcilerVars

\* checkImageContent(img) up to its await.
CheckImageStart(t, inp) ==
  /\ cpc[t] = "new"
  /\ NextInvocation(t)
  /\ inp.kind = "image"
  /\ ~MicrotaskPending
  /\ input' = [input EXCEPT ![t] = inp]
  /\ Submit(t)
  /\ UNCHANGED <<running, gpc, retries, backoff, timer, raceTimer, lastRequestElapsed,
                 abandoned, aiCheckEnabled, ret, cooldownVars, handlerVars, logTask, attemptLog, lastError,
                 dispatched, dispatchElapsed, lastGap>>
  /\ UNCHANGED reconcilerVars

\* The catch block of checkImageContent: it never touches aiCheckEnabled.
ImageDisables(err) == FALSE

\* checkImageContent after its await.
CheckImageResume(t) ==
  /\ cpc[t] = "awaiting"
  /\ input[t].kind = "image"
  /\ Settled(handle[t])
  /\ IF handle[t].state = "resolved"
       THEN /\ ret' = [ret EXCEPT ![t] = ParseVerdict(handle[t].result)]
            /\ UNCHANGED aiCheckEnabled
       ELSE /\ ret' = [ret EXCEPT ![t] = ImageError]
            /\ aiCheckEnabled' = IF ImageDisables(handle[t].error) THEN FALSE ELSE aiCheckEnabled
  /\ cpc' = [cpc EXCEPT ![t] = "returned"]
  /\ OutcomeTaken(t)
  /\ UNCHANGED <<gatewayVars, input, cooldownVars, handlerVars, submitted, dispatchElapsed, lastGap>>
  /\ UNCHANGED reconcilerVars

\* ---------------------------------------------------------------- time
TimerActive == gpc \in {"spacing", "backoff", "pause"}
\* The 15 s timer of Promise.race runs while the external call is awaited
\* (RaceNever: an external call awaited without a timeout).
RaceNever == FALSE
RaceActive == gpc = "calling"
ActiveRemaining == IF TimerActive THEN timer ELSE IF RaceActive THEN raceTimer ELSE 0

\* An elapsed-time reading is below its cap and is not certain to reach it
\* before the callback reads it again (a pending setTimeout that outlasts
\* the rest of the interval guarantees that it does).
ClocksRunning ==
  /\ lastRequestElapsed < ClockCap \/ dispatchElapsed < ClockCap
  /\ TimerActive => \/ lastRequestElapsed + timer < ClockCap
                     \/ dispatchElapsed + timer < ClockCap

\* Time passes: by one step while an elapsed-time reading can still change
\* a comparison, or up to the moment the pending timer is due.
Advance(dt) ==
  /\ ~MicrotaskPending
  /\ \/ dt = TimeStep /\ ClocksRunning
     \/ dt = ActiveRemaining /\ dt > 0
  /\ timer' = IF TimerActive THEN Max(0, timer - dt) ELSE timer
  /\ raceTimer' = IF RaceActive THEN Max(0, raceTimer - dt) ELSE raceTimer
  /\ lastRequestElapsed' = Min(ClockCap, lastRequestElapsed + dt)
  /\ dispatchElapsed' = Min(ClockCap, dispatchElapsed + dt)
  /\ UNCHANGED <<requestQueue, running, gpc, retries, backoff, abandoned, handle,
                 callerVars, submitted, logTask, attemptLog, lastError, dispatched, lastGap>>
  /\ UNCHANGED reconcilerVars

Durations == {TimeStep, timer, raceTimer}

Next ==
  \/ TaskStart
  \/ SpacingDone
  \/ ApiSuccess
  \/ \E err \in ApiErrors : ApiFailure(err)
  \/ ApiTimeout
  \/ AbandonedCompletes
  \/ BackoffDone
  \/ PauseDone
  \/ \E t \in Tasks, inp \in Inputs, cooling \in BOOLEAN : CheckTextStart(t, inp, cooling)
  \/ \E t \in Tasks : CheckTextResume(t)
  \/ \E t \in Tasks, inp \in Inputs : CheckImageStart(t, inp)
  \/ \E t \in Tasks : CheckImageResume(t)
  \/ \E dt \in Durations : Advance(dt)

Spec == Init /\ [][Next]_vars

\* ================================================== reconciler: actions
\* What the reconciler of part_004 leaves alone: the gateway, and the
\* reconciler of src/main.mjs.
gatewaySide == <<gatewayVars, callerVars, historyVars, restartVars>>

\* The next callback chained on editQueue is ready to run.
EditMicrotask == epc = "idle" /\ editQueue # <<>>

\* The continuation of a tick callback whose refresh has failed is ready
\* to run; it runs before anything else is delivered.
TickMicrotask == \E k \in Ticks : tpc[k] = "caught"

\* A promise reaction is ready.
Microtask == EditMicrotask \/ TickMicrotask

\* ch.send(...) creates the next message of the channel.
NewMessage == sent + 1

\* const newMsg = await ch.send(...); saveStatusMessageId(newMsg.id); the
\* variant sends and does not save the identifier.
SendWithoutSave ==
  /\ sent' = NewMessage
  /\ live' = live \cup {NewMessage}
  /\ content' = [content EXCEPT ![NewMessage] = StartText]
  /\ UNCHANGED statusStore

SendAndSave ==
  /\ sent' = NewMessage
  /\ live' = live \cup {NewMessage}
  /\ content' = [content EXCEPT ![NewMessage] = StartText]
  /\ statusStore' = NewMessage

\* updateInterval = setInterval(..., 1000), with the locals of the closure.
IntervalSet ==
  /\ updateInterval' = TRUE
  /\ tickDue' = now + TICK_INTERVAL
  /\ upc' = "run"

\* client.once("ready"): updateRealtimeTimeout up to the await inside
\* ensureTimeoutStatusMessage.
StartUp ==
  /\ upc = "boot"
  /\ usaved' = statusStore
  /\ upc' = IF statusStore # 0 THEN "fetch" ELSE "send"
  /\ UNCHANGED <<now, expiry, surfaceVars, timeoutStatusMessage, updateInterval, tickDue,
                 lastFullFetch, fetchBackoff, spc, editVars, tickVars, editHistoryVars, deletes>>
  /\ UNCHANGED gatewaySide

\* if (timeoutStatusMessage && timeoutStatusMessage.content !== text)
\*   editQueue = editQueue.then(...)
Diff(k, text, msg, cont) ==
  IF msg # 0 /\ cont[msg] # text
    THEN /\ editQueue' = Append(editQueue, [tick |-> k, text |-> text])
         /\ tpc' = [tpc EXCEPT ![k] = "done"]
    ELSE /\ UNCHANGED editQueue
         /\ tpc' = [tpc EXCEPT ![k] = "done"]

\* The callers of ensureTimeoutStatusMessage: updateRealtimeTimeout (0)
\* and the tick callbacks.
Callers == {0} \cup Ticks
CallerAt(c, pc) == IF c = 0 THEN upc = pc ELSE tpc[c] = pc
SavedId(c) == IF c = 0 THEN usaved ELSE tsaved[c]

\* ensureTimeoutStatusMessage returns message id to caller c, which goes
\* on: updateRealtimeTimeout sets the interval, a tick callback diffs.
EnsureReturns(c, id, cont) ==
  /\ timeoutStatusMessage' = id
  /\ IF c = 0
       THEN /\ IntervalSet
            /\ UNCHANGED <<tpc, ttext, editQueue>>
       ELSE /\ Diff(c, ttext[c], id, cont)
            /\ ttext' = [ttext EXCEPT ![c] = NoText]
            /\ UNCHANGED <<upc, updateInterval, tickDue>>

\* ch.messages.fetch(savedId).catch(() => null) has answered: the message
\* (only if it exists), or null for any error.
EnsureFetched(c, found) ==
  /\ CallerAt(c, "fetch")
  /\ ~Microtask
  /\ found => SavedId(c) \in live
  /\ IF found
       THEN /\ EnsureReturns(c, SavedId(c), content)
            /\ UNCHANGED statusStore
       ELSE /\ statusStore' = 0
            /\ IF c = 0
                 THEN upc' = "send" /\ UNCHANGED tpc
                 ELSE tpc' = [tpc EXCEPT ![c] = "send"] /\ UNCHANGED upc
            /\ UNCHANGED <<timeoutStatusMessage, updateInterval, tickDue, editQueue, ttext>>
  /\ UNCHANGED <<now, expiry, live, content, sent, usaved, lastFullFetch, fetchBackoff, spc, lastEditTime,
                 epc, cur, editTarget, editDue, fired, tsaved, lastRender,
                 editHistoryVars, deletes>>
  /\ UNCHANGED gatewaySide

\* ch.send(...) has answered.
EnsureSent(c) ==
  /\ CallerAt(c, "send")
  /\ ~Microtask
  /\ SendAndSave
  /\ EnsureReturns(c, NewMessage, content')
  /\ UNCHANGED <<now, expiry, usaved, lastFullFetch, fetchBackoff, spc, lastEditTime, epc, cur, editTarget,
                 editDue, fired, tsaved, lastRender, editHistoryVars, deletes>>
  /\ UNCHANGED gatewaySide

\* The tick callback from the render to its next await or its end.
RenderOn(k) ==
  LET text == Render(expiry, now)
      us == TimeoutUsers(expiry, now)
  IN
  /\ lastRender' = [tick |-> k, records |-> us, text |-> text]
  /\ IF timeoutStatusMessage = 0
       THEN /\ ttext' = [ttext EXCEPT ![k] = text]
            /\ tsaved' = [tsaved EXCEPT ![k] = statusStore]
            /\ tpc' = [tpc EXCEPT ![k] = IF statusStore # 0 THEN "fetch" ELSE "send"]
            /\ UNCHANGED editQueue
       ELSE /\ UNCHANGED <<ttext, tsaved>>
            /\ Diff(k, text, timeoutStatusMessage, content)

\* const now = Date.now() of tick k: the interval timer fires on time.
TickFireTime(k) == tickDue - (fired - k + 1) * TICK_INTERVAL

\* The interval timer fires: the callback runs to its first await.
TickFire ==
  /\ updateInterval
  /\ now = tickDue
  /\ fired < MaxTicks
  /\ ~Microtask
  /\ fired' = fired + 1
  /\ tickDue' = tickDue + TICK_INTERVAL
  /\ IF now - lastFullFetch > FULL_FETCH_INTERVAL
       THEN /\ tpc' = [tpc EXCEPT ![fired + 1] = "refresh"]
            /\ UNCHANGED <<ttext, tsaved, lastRender, editQueue>>
       ELSE RenderOn(fired + 1)
  /\ UNCHANGED <<now, expiry, surfaceVars, upc, usaved, timeoutStatusMessage, updateInterval,
                 lastFullFetch, fetchBackoff, spc, lastEditTime, epc, cur, editTarget, editDue,
                 editHistoryVars, deletes>>
  /\ UNCHANGED gatewaySide

\* guild.members.fetch(...) has rejected: .catch(() => null) runs and turns
\* the error into null.
RefreshFailed(k) ==
  /\ tpc[k] = "refresh"
  /\ ~Microtask
  /\ tpc' = [tpc EXCEPT ![k] = "caught"]
  /\ UNCHANGED <<now, expiry, surfaceVars, processVars, editVars, fired, ttext, tsaved,
                 lastRender, editHistoryVars, deletes>>
  /\ UNCHANGED gatewaySide

\* The tick callback after await guild.members.fetch(...).catch(...), be it
\* that the fetch has answered with the members or that the catch has
\* returned null: lastFullFetch = now; fetchBackoff = 2000; then the render.
RefreshDone(k) ==
  /\ \/ tpc[k] = "refresh" /\ ~Microtask
     \/ tpc[k] = "caught"
  /\ lastFullFetch' = TickFireTime(k)
  /\ fetchBackoff' = FETCH_BACKOFF_START
  /\ RenderOn(k)
  /\ UNCHANGED <<now, expiry, surfaceVars, upc, usaved, timeoutStatusMessage, updateInterval,
                 tickDue, spc, fired, lastEditTime, epc, cur, editTarget, editDue,
                 editHistoryVars, deletes>>
  /\ UNCHANGED gatewaySide

\* ------------------------------------------- reconciler: the edit queue
\* await new Promise(r => setTimeout(r, 5000)) after a 429, started at t:
\* when it is over; the variant does not wait.
EditCooldownUntilNow(t) == t
EditCooldownUntil(t) == t + EDIT_COOLDOWN

\* Errors the edit call can answer with (err.code); 10008 is Unknown Message.
EditErrors == {10008, 50013, 429}

\* setTimeout(r, 700 - timeSinceLastEdit)
EditSpacingWait(since) == EDIT_INTERVAL - since

\* await timeoutStatusMessage.edit(text) is called.
EditCall(e) ==
  /\ epc' = "editing"
  /\ cur' = e
  /\ editTarget' = timeoutStatusMessage
  /\ editDue' = 0
  /\ editsInFlight' = editsInFlight + 1
  /\ lastStartTick' = e.tick
  /\ editGap' = IF lastEditStart = 0 THEN EDIT_INTERVAL
                ELSE Min(EDIT_INTERVAL, now - lastEditStart)
  /\ lastEditStart' = now
  /\ UNCHANGED <<lastEditTime, editAnswer>>

\* The callback chained for an edit, from its start to its first await.
EditBegin(e) ==
  IF timeoutStatusMessage = 0
    THEN UNCHANGED <<lastEditTime, epc, cur, editTarget, editDue, editHistoryVars>>
    ELSE IF now - lastEditTime < EDIT_INTERVAL
      THEN /\ epc' = "spacing"
           /\ cur' = e
           /\ editDue' = now + EditSpacingWait(now - lastEditTime)
           /\ UNCHANGED <<lastEditTime, editTarget, editHistoryVars>>
      ELSE EditCall(e)

\* The callback of an edit, were it run without being chained: it starts
\* although the callback of an earlier edit has not returned.
EditStartUnchained ==
  /\ editQueue # <<>>
  /\ editQueue' = Tail(editQueue)
  /\ EditBegin(Head(editQueue))
  /\ UNCHANGED <<now, expiry, surfaceVars, processVars, tickVars, deletes>>
  /\ UNCHANGED gatewaySide

\* editQueue.then(async () => { ... }) starts running.
EditStart ==
  /\ epc = "idle"
  /\ editQueue # <<>>
  /\ ~TickMicrotask
  /\ editQueue' = Tail(editQueue)
  /\ EditBegin(Head(editQueue))
  /\ UNCHANGED <<now, expiry, surfaceVars, processVars, tickVars, deletes>>
  /\ UNCHANGED gatewaySide

EditSpacingDone ==
  /\ epc = "spacing"
  /\ now = editDue
  /\ ~Microtask
  /\ EditCall(cur)
  /\ UNCHANGED <<now, expiry, surfaceVars, processVars, editQueue, tickVars, deletes>>
  /\ UNCHANGED gatewaySide

\* The edit call has answered; the callback returns or starts its cooldown.
EditAnswered(code, pc, due) ==
  /\ editAnswer' = code
  /\ epc' = pc
  /\ editDue' = due
  /\ cur' = NoEdit
  /\ editTarget' = 0
  /\ editsInFlight' = editsInFlight - 1
  /\ UNCHANGED <<editQueue, lastStartTick, lastEditStart, editGap>>

\* The edit succeeded: the message shows the text; lastEditTime = Date.now().
EditOk ==
  /\ epc = "editing"
  /\ ~TickMicrotask
  /\ editTarget \in live
  /\ content' = [content EXCEPT ![editTarget] = cur.text]
  /\ lastEditTime' = now
  /\ EditAnswered(0, "idle", 0)
  /\ UNCHANGED <<now, expiry, statusStore, live, sent, processVars, tickVars, deletes>>
  /\ UNCHANGED gatewaySide

\* catch (err) of the edit.
EditFail(code) ==
  /\ epc = "editing"
  /\ ~TickMicrotask
  /\ code = 10008 => editTarget \notin live
  /\ IF code = 10008
       THEN /\ timeoutStatusMessage' = 0
            /\ statusStore' = 0
            /\ EditAnswered(code, "idle", 0)
       ELSE IF code = 429
         THEN /\ EditAnswered(code, "cooldown", EditCooldownUntil(now))
              /\ UNCHANGED <<timeoutStatusMessage, statusStore>>
         ELSE /\ EditAnswered(code, "idle", 0)
              /\ UNCHANGED <<timeoutStatusMessage, statusStore>>
  /\ UNCHANGED <<now, expiry, live, content, sent, upc, usaved, updateInterval, tickDue,
                 lastFullFetch, fetchBackoff, spc, lastEditTime, tickVars, deletes>>
  /\ UNCHANGED gatewaySide

EditCooldownDone ==
  /\ epc = "cooldown"
  /\ now = editDue
  /\ ~Microtask
  /\ epc' = "idle"
  /\ editDue' = 0
  /\ UNCHANGED <<lastEditTime, editQueue, cur, editTarget>>
  /\ UNCHANGED <<now, expiry, surfaceVars, processVars, tickVars, editHistoryVars,
                 deletes>>
  /\ UNCHANGED gatewaySide

\* ------------------------------------------ reconciler: its environment
\* Somebody deletes a status message in the channel.
DeleteMessage(id) ==
  /\ id \in live
  /\ deletes < MaxDeletes
  /\ ~Microtask
  /\ live' = live \ {id}
  /\ deletes' = deletes + 1
  /\ UNCHANGED <<now, expiry, statusStore, content, sent, processVars, editVars, tickVars,
                 editHistoryVars>>
  /\ UNCHANGED gatewaySide

\* The pending timers of the reconciler and when they are due.
TimersDue ==
  (IF updateInterval /\ fired < MaxTicks THEN {tickDue} ELSE {})
    \cup (IF epc \in {"spacing", "cooldown"} THEN {editDue} ELSE {})

\* Date.now() - lastEditTime is only ever compared with 700: an older
\* lastEditTime reads like the initial 0.
Aged(t, at) == IF at - t >= EDIT_INTERVAL THEN 0 ELSE t

\* The next instant of the time grid; the calls of the startup answer
\* within one step of it.
NextStep == now + RStep - (now % RStep)
MayStep == NextStep <= Epoch + (IF upc = "run" THEN Horizon ELSE RStep)

\* Time passes, to the next instant of the grid or to the next due timer,
\* never past a due timer.
Elapse(t) ==
  /\ t > now
  /\ ~Microtask
  /\ \A d \in TimersDue : t <= d
  /\ \/ t = NextStep /\ MayStep
     \/ t \in TimersDue
  /\ now' = t
  /\ lastEditTime' = Aged(lastEditTime, t)
  /\ lastEditStart' = Aged(lastEditStart, t)
  /\ UNCHANGED <<expiry, surfaceVars, processVars, editQueue, epc, cur, editTarget, editDue,
                 tickVars, editsInFlight, lastStartTick, editGap, editAnswer, deletes>>
  /\ UNCHANGED gatewaySide

Instants == {NextStep} \cup TimersDue

ReconcilerInit ==
  /\ GatewayStart
  /\ ReconcilerStart
  /\ \E f \in {NoSurface, LeftSurface} : SurfaceIs(f)
  /\ expiry \in Snapshots

ReconcilerNext ==
  \/ StartUp
  \/ \E c \in Callers, found \in BOOLEAN : EnsureFetched(c, found)
  \/ \E c \in Callers : EnsureSent(c)
  \/ TickFire
  \/ \E k \in Ticks : RefreshFailed(k)
  \/ \E k \in Ticks : RefreshDone(k)
  \/ EditStart
  \/ EditSpacingDone
  \/ EditOk
  \/ \E code \in EditErrors : EditFail(code)
  \/ EditCooldownDone
  \/ \E id \in MessageIds : DeleteMessage(id)
  \/ \E t \in Instants : Elapse(t)

Reconciler == ReconcilerInit /\ [][ReconcilerNext]_vars

\* ================================================== the shutdown handler
\* Whether the interval timer is still set after
\* if (updateInterval) clearInterval(updateInterval).
TimerLeftSet == updateInterval
TimerCleared == FALSE

\* process.on("SIGTERM"): the handler up to await sendLog(...).
Sigterm ==
  /\ spc = "idle"
  /\ ~Microtask
  /\ updateInterval' = TimerCleared
  /\ spc' = "log"
  /\ UNCHANGED <<now, expiry, surfaceVars, upc, usaved, timeoutStatusMessage, tickDue,
                 lastFullFetch, fetchBackoff, editVars, tickVars, editHistoryVars, deletes>>
  /\ UNCHANGED gatewaySide

\* sendLog has returned or thrown: finally { process.exit(0) }.
SigtermExit ==
  /\ spc = "log"
  /\ ~Microtask
  /\ spc' = "exited"
  /\ UNCHANGED <<now, expiry, surfaceVars, upc, usaved, timeoutStatusMessage, updateInterval,
                 tickDue, lastFullFetch, fetchBackoff, editVars, tickVars, editHistoryVars,
                 deletes>>
  /\ UNCHANGED gatewaySide

\* Nothing of the process runs after process.exit.
Running == spc # "exited" /\ ReconcilerNext

ShutdownNext ==
  \/ Running
  \/ Sigterm
  \/ SigtermExit

Shutdown == ReconcilerInit /\ [][ShutdownNext]_vars

\* ============================================== the render step by itself
\* The communicationDisabledUntilTimestamp a member of the cache may carry
\* and the instants at which the list is rendered.
ExpiryValues == {0, Epoch, Epoch + 1, Epoch + 5000, Epoch + 30000, Epoch + 120000}
RenderInstants == {Epoch, Epoch + 5000}

RenderInit ==
  /\ GatewayStart
  /\ ReconcilerStart
  /\ SurfaceIs(NoSurface)
  /\ expiry \in [MemberTags -> ExpiryValues]

\* The render of a tick callback that runs at time t.
RenderAt(t) ==
  /\ lastRender = NoRender \/ t > now
  /\ now' = t
  /\ lastRender' = [tick |-> 1, records |-> TimeoutUsers(expiry, t), text |-> Render(expiry, t)]
  /\ UNCHANGED <<expiry, surfaceVars, processVars, editVars, fired, tpc, ttext, tsaved,
                 editHistoryVars, deletes>>
  /\ UNCHANGED gatewaySide

RenderNext == \E t \in RenderInstants : RenderAt(t)

RenderSpec == RenderInit /\ [][RenderNext]_vars

\* ====================================== src/main.mjs: callAPI, two revisions
\* The first revision (lines 47-94) and the second (lines 438-470) chain the
\* same retry loop on requestQueue; v says which of the two runs.
MAIN_REQUEST_INTERVAL == 5000
API_TIMEOUT == 30000
MainStep == 1000       \* granularity of the passage of time of main.mjs, in ms

\* let attempt: only Math.min(5000 * attempt, 30000) reads it, which is the
\* same for every attempt from the sixth on.
AttemptCap == 6

\* What apiFunc can throw: errors with a message, and a value that has no
\* message property (marked by the code -1).
BareThrown == MkError(<<>>, -1)
MainErrors ==
  { MkError(<<"fetch", "failed">>, 0),
    MkError(<<"429", "Too", "Many", "Requests">>, 0),
    MkError(<<"Resource", "exhausted">>, 0),
    BareThrown }
MainTimeoutError == MkError(<<"hantei", "timeout">>, 0)
HasMessage(err) == err.code # -1

\* err.message.includes('429') || err.message.includes('Resource exhausted')
\* in the first revision, err.message.includes("429") in the second.
MainIsRateLimit(v, msg) ==
  Includes(msg, <<"429">>) \/ (v = 1 /\ Includes(msg, <<"Resource", "exhausted">>))

\* The delay the catch block waits before the loop goes round.
RetryWait(v, attempt, msg) ==
  IF v = 1
    THEN IF MainIsRateLimit(v, msg) THEN Min(5000 * attempt, 30000) ELSE 5000
    ELSE IF MainIsRateLimit(v, msg) THEN 3000 ELSE 2000

mainUnused == <<backoff, abandoned, aiCheckEnabled, cooldownVars, handlerVars, logTask, attemptLog, dispatched,
                dispatchElapsed, lastGap>>

\* lastRequestTime = 0: the first request never waits.
MainInit ==
  /\ requestQueue = <<>>
  /\ running = 0
  /\ gpc = "idle"
  /\ retries = 0
  /\ backoff = 0
  /\ timer = 0
  /\ raceTimer = 0
  /\ lastRequestElapsed = MAIN_REQUEST_INTERVAL
  /\ abandoned = 0
  /\ handle = [t \in Tasks |-> NoHandle]
  /\ aiCheckEnabled = TRUE
  /\ CooldownStart
  /\ cpc = [t \in Tasks |-> "new"]
  /\ input = [t \in Tasks |-> NoInput]
  /\ ret = [t \in Tasks |-> NoRet]
  /\ submitted = <<>>
  /\ logTask = 0
  /\ attemptLog = <<>>
  /\ lastError = NoError
  /\ dispatched = 0
  /\ dispatchElapsed = 0
  /\ lastGap = 0
  /\ ReconcilerStart
  /\ SurfaceIs(NoSurface)
  /\ expiry = [m \in MemberTags |-> 0]

\* A promise reaction is ready: the next callback chained on a fulfilled
\* requestQueue, or the continuation of a caller whose handle has settled.
MainMicrotask ==
  \/ gpc = "idle" /\ requestQueue # <<>>
  \/ \E t \in Tasks : cpc[t] = "awaiting" /\ Settled(handle[t])

\* lastRequestTime = Date.now(); const result = await apiFunc(): the first
\* revision's apiFunc races the call against API_TIMEOUT, the second's is
\* the bare model.generateContent(...).
MainDispatch(v) ==
  /\ gpc' = "calling"
  /\ timer' = 0
  /\ raceTimer' = IF v = 1 THEN API_TIMEOUT ELSE 0
  /\ lastRequestElapsed' = 0

\* The body of while (true), attempt a of task t, up to its first await.
MainAttempt(v, t, a) ==
  /\ running' = t
  /\ retries' = IF v = 1 THEN a ELSE 0
  /\ IF lastRequestElapsed < MAIN_REQUEST_INTERVAL
       THEN /\ gpc' = "spacing"
            /\ timer' = MAIN_REQUEST_INTERVAL - lastRequestElapsed
            /\ UNCHANGED <<raceTimer, lastRequestElapsed>>
       ELSE MainDispatch(v)

\* checkTextContent / checkImageContent up to await callAPI(...).
MainCheckStart(t, inp) ==
  /\ cpc[t] = "new"
  /\ NextInvocation(t)
  /\ ~MainMicrotask
  /\ input' = [input EXCEPT ![t] = inp]
  /\ Submit(t)
  /\ UNCHANGED <<running, gpc, retries, timer, raceTimer, lastRequestElapsed, ret, lastError>>
  /\ UNCHANGED mainUnused
  /\ UNCHANGED reconcilerVars

\* The next callback chained on requestQueue starts.
MainTaskStart(v) ==
  /\ gpc = "idle"
  /\ requestQueue # <<>>
  /\ requestQueue' = Tail(requestQueue)
  /\ MainAttempt(v, Head(requestQueue), 1)
  /\ UNCHANGED <<handle, callerVars, submitted, lastError>>
  /\ UNCHANGED mainUnused
  /\ UNCHANGED reconcilerVars

MainSpacingDone(v) ==
  /\ gpc = "spacing"
  /\ timer = 0
  /\ ~MainMicrotask
  /\ MainDispatch(v)
  /\ UNCHANGED <<requestQueue, running, retries, handle, callerVars, submitted, lastError>>
  /\ UNCHANGED mainUnused
  /\ UNCHANGED reconcilerVars

\* apiFunc has answered: resolve(result); return.
MainApiSuccess ==
  /\ gpc = "calling"
  /\ ~MainMicrotask
  /\ handle' = Settle(handle, running, Resolved(ApiResult(running, input[running])))
  /\ gpc' = "idle"
  /\ running' = 0
  /\ retries' = 0
  /\ timer' = 0
  /\ raceTimer' = 0
  /\ UNCHANGED <<requestQueue, lastRequestElapsed, callerVars, submitted, lastError>>
  /\ UNCHANGED mainUnused
  /\ UNCHANGED reconcilerVars

\* catch (err): err.message.includes(...) picks the delay; on a value
\* without a message it throws a TypeError out of the callback, which
\* rejects the promise requestQueue holds.
MainCaught(v, err) ==
  /\ lastError' = err
  /\ raceTimer' = 0
  /\ IF HasMessage(err)
       THEN /\ gpc' = "waiting"
            /\ timer' = RetryWait(v, retries, err.message)
            /\ UNCHANGED <<running, retries>>
       ELSE /\ gpc' = "broken"
            /\ timer' = 0
            /\ running' = 0
            /\ retries' = 0
  /\ UNCHANGED <<requestQueue, lastRequestElapsed, handle, callerVars, submitted>>
  /\ UNCHANGED mainUnused
  /\ UNCHANGED reconcilerVars

\* apiFunc has rejected with err.
MainApiFailure(v, err) ==
  /\ gpc = "calling"
  /\ ~MainMicrotask
  /\ MainCaught(v, err)

\* First revision: the timer of API_TIMEOUT wins the race.
MainApiTimeout ==
  /\ gpc = "calling"
  /\ raceTimer = 0
  /\ ~MainMicrotask
  /\ MainCaught(1, MainTimeoutError)

\* The delay of the catch block is over: attempt++ and the next round.
MainWaitDone(v) ==
  /\ gpc = "waiting"
  /\ timer = 0
  /\ ~MainMicrotask
  /\ MainAttempt(v, running, Min(retries + 1, AttemptCap))
  /\ UNCHANGED <<requestQueue, handle, callerVars, submitted, lastError>>
  /\ UNCHANGED mainUnused
  /\ UNCHANGED reconcilerVars

\* The caller after await callAPI(...): the verdict read from the reply.
MainResume(t) ==
  /\ cpc[t] = "awaiting"
  /\ handle[t].state = "resolved"
  /\ cpc' = [cpc EXCEPT ![t] = "returned"]
  /\ ret' = [ret EXCEPT ![t] = ParseVerdict(handle[t].result)]
  /\ UNCHANGED <<gatewayVars, aiCheckEnabled, input, cooldownVars, handlerVars, historyVars>>
  /\ UNCHANGED reconcilerVars

\* Time passes by one step, never past a due timer, while a timer of the
\* callback is pending or the reading of lastRequestTime can still change
\* a comparison.
MainAdvance(v) ==
  /\ ~MainMicrotask
  /\ gpc \in {"spacing", "waiting"} => timer > 0
  /\ (gpc = "calling" /\ v = 1) => raceTimer > 0
  /\ \/ gpc \in {"spacing", "waiting"}
     \/ gpc = "calling" /\ v = 1
     \/ lastRequestElapsed < MAIN_REQUEST_INTERVAL
  /\ timer' = Max(0, timer - MainStep)
  /\ raceTimer' = Max(0, raceTimer - MainStep)
  /\ lastRequestElapsed' = Min(MAIN_REQUEST_INTERVAL, lastRequestElapsed + MainStep)
  /\ UNCHANGED <<requestQueue, running, gpc, retries, handle, callerVars, submitted, lastError>>
  /\ UNCHANGED mainUnused
  /\ UNCHANGED reconcilerVars

\* The steps of the loop and of the callers, which the event loop takes
\* whenever they are due, and the answers of the classifier.
MainLoop(v) ==
  \/ MainTaskStart(v)
  \/ MainSpacingDone(v)
  \/ MainWaitDone(v)
  \/ \E t \in Tasks : MainResume(t)
  \/ MainAdvance(v)

MainEnvironment(v) ==
  \/ \E t \in Tasks, inp \in Inputs : MainCheckStart(t, inp)
  \/ MainApiSuccess
  \/ \E err \in MainErrors : MainApiFailure(v, err)

Main1Next ==
  \/ MainLoop(1)
  \/ MainEnvironment(1)
  \/ MainApiTimeout

Main2Next ==
  \/ MainLoop(2)
  \/ MainEnvironment(2)

Main1 == MainInit /\ [][Main1Next]_vars

\* The loop steps are taken when due; the classifier need not answer.
FairMain2 ==
  /\ MainInit
  /\ [][Main2Next]_vars
  /\ WF_vars(MainLoop(2))

\* ============================== checkTextContent: the per-user cooldown
\* checkTextContent with the Map recentChecks.  callAPI is taken here by
\* its contract alone: it settles the handles in the order of the calls,
\* each after some time.  Time is absolute, as in the reconciler.
AI_CHECK_COOLDOWN == 10000
CoolStep == 5000       \* granularity of the passage of time, in ms
CoolHorizon == 15000   \* time the callers are observed for, in ms

CoolMicrotask == \E t \in Tasks : cpc[t] = "awaiting" /\ Settled(handle[t])

\* lastCheck && now - lastCheck < AI_CHECK_COOLDOWN
InCooldown(lastCheck, at) == lastCheck # 0 /\ at - lastCheck < AI_CHECK_COOLDOWN

\* checkTextContent(text, userId) up to its return or to await callAPI(...).
CoolCheckStart(t, inp, u) ==
  /\ cpc[t] = "new"
  /\ NextInvocation(t)
  /\ inp.kind = "text"
  /\ ~CoolMicrotask
  /\ input' = [input EXCEPT ![t] = inp]
  /\ IF ~aiCheckEnabled
       THEN /\ ret' = [ret EXCEPT ![t] = simpleKeywordCheck(inp.text)]
            /\ cpc' = [cpc EXCEPT ![t] = "returned"]
            /\ UNCHANGED <<requestQueue, handle, submitted, started, lastSubmitAt>>
       ELSE IF InCooldown(recentChecks[u], now)
         THEN /\ ret' = [ret EXCEPT ![t] = CooldownSkip]
              /\ cpc' = [cpc EXCEPT ![t] = "returned"]
              /\ UNCHANGED <<requestQueue, handle, submitted, started, lastSubmitAt>>
         ELSE /\ Submit(t)
              /\ started' = [started EXCEPT ![t] = [user |-> u, at |-> now]]
              /\ lastSubmitAt' = [lastSubmitAt EXCEPT ![u] = now]
              /\ UNCHANGED ret
  /\ UNCHANGED <<running, gpc, retries, backoff, timer, raceTimer, lastRequestElapsed,
                 abandoned, aiCheckEnabled, recentChecks, handlerVars, logTask, attemptLog,
                 lastError,
                 dispatched, dispatchElapsed, lastGap>>
  /\ UNCHANGED reconcilerVars

\* How callAPI can settle the handle of task t.
CoolOutcomes(t) ==
  { Resolved(ApiResult(t, input[t])), Rejected(QuotaError), Rejected(PersistentError),
    Rejected(TimeoutError) }

\* callAPI settles the handle of the oldest call it holds.
CoolSettle(h) ==
  /\ requestQueue # <<>>
  /\ ~CoolMicrotask
  /\ h \in CoolOutcomes(Head(requestQueue))
  /\ handle' = Settle(handle, Head(requestQueue), h)
  /\ requestQueue' = Tail(requestQueue)
  /\ UNCHANGED <<running, gpc, retries, backoff, timer, raceTimer, lastRequestElapsed,
                 abandoned, callerVars, historyVars>>
  /\ UNCHANGED reconcilerVars

\* checkTextContent after its await: recentChecks.set(userId, now) on a
\* verdict of the classifier, the catch block otherwise.
CoolResume(t) ==
  /\ cpc[t] = "awaiting"
  /\ Settled(handle[t])
  /\ IF handle[t].state = "resolved"
       THEN /\ ret' = [ret EXCEPT ![t] = ParseVerdict(handle[t].result)]
            /\ recentChecks' = [recentChecks EXCEPT ![started[t].user] = started[t].at]
            /\ UNCHANGED aiCheckEnabled
       ELSE /\ ret' = [ret EXCEPT ![t] = simpleKeywordCheck(input[t].text)]
            /\ aiCheckEnabled' = IF TextDisables(handle[t].error) THEN FALSE ELSE aiCheckEnabled
            /\ UNCHANGED recentChecks
  /\ cpc' = [cpc EXCEPT ![t] = "returned"]
  /\ UNCHANGED <<gatewayVars, input, started, lastSubmitAt, handlerVars, historyVars>>
  /\ UNCHANGED reconcilerVars

CoolElapse ==
  /\ ~CoolMicrotask
  /\ now + CoolStep <= Epoch + CoolHorizon
  /\ now' = now + CoolStep
  /\ UNCHANGED <<expiry, surfaceVars, processVars, editVars, tickVars, editHistoryVars,
                 deletes>>
  /\ UNCHANGED gatewaySide

CoolNext ==
  \/ \E t \in Tasks, inp \in Inputs, u \in Users : CoolCheckStart(t, inp, u)
  \/ \E t \in Tasks : \E h \in CoolOutcomes(t) : CoolSettle(h)
  \/ \E t \in Tasks : CoolResume(t)
  \/ CoolElapse

Cooldown == Init /\ [][CoolNext]_vars

\* ======================================== messageCreate: the voice rule
\* The head of the messageCreate handler, the same in part_004 and in the
\* second revision of main.mjs: which messages go on to classification.
WHITELIST_USERS == {"harima1945"}

\* What the handler reads of a message: author.bot, whether it has a
\* guild, author.username, and the member the cache holds for the author
\* ("uncached": members.cache.get returns undefined).
Authors ==
  [bot : BOOLEAN, guild : BOOLEAN, username : {"harima1945", "someone"},
   member : {"uncached", "not in voice", "in voice"}]

\* member?.voice?.channel: undefined for no member, null for a member who
\* is in no voice channel.
VoiceChannel(member) ==
  CASE member = "uncached" -> "undefined"
    [] member = "in voice" -> "channel"
    [] OTHER -> "null"

\* const isInVoice = member?.voice?.channel !== null
IsInVoice(member) == VoiceChannel(member) # "null"

\* The handler up to the first check of content.
MessageCreate(t, a) ==
  /\ cpc[t] = "new"
  /\ NextInvocation(t)
  /\ author' = [author EXCEPT ![t] = a]
  /\ cpc' = [cpc EXCEPT ![t] =
               IF a.bot \/ ~a.guild THEN "ignored"
               ELSE IF a.username \in WHITELIST_USERS THEN "ignored"
               ELSE IF IsInVoice(a.member) /\ ~voiceUserAICheck THEN "voice skip"
               ELSE "classify"]
  /\ UNCHANGED <<gatewayVars, aiCheckEnabled, input, ret, cooldownVars, voiceUserAICheck,
                 historyVars>>
  /\ UNCHANGED reconcilerVars

\* The voice-ai command: voiceUserAICheck = mode === "on".
VoiceAi(on) ==
  /\ voiceUserAICheck' = on
  /\ UNCHANGED <<gatewayVars, aiCheckEnabled, cpc, input, ret, cooldownVars, author,
                 historyVars>>
  /\ UNCHANGED reconcilerVars

VoiceNext ==
  \/ \E t \in Tasks, a \in Authors : MessageCreate(t, a)
  \/ \E on \in BOOLEAN : VoiceAi(on)

VoiceRule == Init /\ [][VoiceNext]_vars

\* ========================= src/main.mjs: updateRealtimeTimeout, revision 2
\* setInterval(..., 1000), the 500 ms between two edits of one queue and the
\* 5000 ms between two forced refreshes of the member cache.
MAIN_TICK_INTERVAL == 1000
MAIN_EDIT_INTERVAL == 500
MAIN_FETCH_INTERVAL == 5000

\* The text of a tick at time t while nobody is timed out, which is the
\* case throughout: the head and "最終更新: <t:" + Math.floor(Date.now() / 1000).
RenderEmpty(t) == [head |-> "empty", entries |-> <<>>, stamp |-> FloorSeconds(t)]

\* A callback chained on the editQueue of some call is ready to run.
RestartMicrotask ==
  \E g \in Starts : closure[g].epc = "idle" /\ closure[g].editQueue # <<>>

\* The interval timers that are set and not cleared.
ActiveTimers == {g \in Starts : closure[g].timer}

\* clearInterval(id); clearInterval(null) does nothing.
ClearInterval(cl, id) == IF id = 0 THEN cl ELSE [cl EXCEPT ![id].timer = FALSE]

\* if (updateInterval) clearInterval(updateInterval), before setInterval; the
\* variant installs the new timer without clearing the stored one.
ClearStoredSkipped(cl) == cl
ClearStored(cl) == ClearInterval(cl, updateIntervalId)

\* updateRealtimeTimeout() is called: it runs to
\* await client.channels.fetch(...).
CanCall(cl) == \E g \in Starts : cl[g].pc = "unused"
NextCall(cl) == CHOOSE g \in Starts : cl[g].pc = "unused" /\ \A h \in 1..(g - 1) : cl[h].pc # "unused"
Call(cl) == [cl EXCEPT ![NextCall(cl)].pc = "fetch"]

\* clearInterval(updateInterval); updateRealtimeTimeout(): the restart of a
\* tick that holds no message and of an edit that found it deleted.
SelfRestart(cl) == Call(ClearInterval(cl, updateIntervalId))

\* From the clearing of the stored timer to the end of the call g: the locals
\* are fresh and the new timer is stored.
Install(cl, g) ==
  /\ closure' = [ClearStored(cl) EXCEPT ![g].pc = "set", ![g].timer = TRUE,
                                        ![g].tickDue = now + MAIN_TICK_INTERVAL]
  /\ updateIntervalId' = g

restartUnused ==
  <<statusStore, upc, usaved, updateInterval, tickDue, lastFullFetch, fetchBackoff, spc,
    editVars, tpc, ttext, tsaved, lastRender, lastStartTick, lastEditStart, editGap,
    editAnswer, gatewayVars, callerVars, historyVars>>

\* The ready handler: setTimeout(() => updateRealtimeTimeout(), 2000).
RestartReady ==
  /\ closure[1].pc = "unused"
  /\ closure' = Call(closure)
  /\ UNCHANGED <<now, expiry, live, content, sent, timeoutStatusMessage, updateIntervalId,
                 fired, editsInFlight, deletes>>
  /\ UNCHANGED restartUnused

\* client.channels.fetch(...) has answered: without a channel the call
\* returns; without a message held it sends one; else it installs its timer.
ChannelFetched(g, found) ==
  /\ closure[g].pc = "fetch"
  /\ ~RestartMicrotask
  /\ IF ~found
       THEN /\ closure' = [closure EXCEPT ![g].pc = "returned"]
            /\ UNCHANGED updateIntervalId
       ELSE IF timeoutStatusMessage = 0
         THEN /\ closure' = [closure EXCEPT ![g].pc = "send"]
              /\ UNCHANGED updateIntervalId
         ELSE Install(closure, g)
  /\ UNCHANGED <<now, expiry, live, content, sent, timeoutStatusMessage, fired,
                 editsInFlight, deletes>>
  /\ UNCHANGED restartUnused

\* timeoutStatusMessage = await ch.send(...) has answered.
StartSent(g) ==
  /\ closure[g].pc = "send"
  /\ ~RestartMicrotask
  /\ NewMessage \in MessageIds
  /\ sent' = NewMessage
  /\ live' = live \cup {NewMessage}
  /\ content' = [content EXCEPT ![NewMessage] = StartText]
  /\ timeoutStatusMessage' = NewMessage
  /\ Install(closure, g)
  /\ UNCHANGED <<now, expiry, fired, editsInFlight, deletes>>
  /\ UNCHANGED restartUnused

\* A tick of the call g from the render on, cl being the locals so far:
\* without a message it restarts; a text that differs is chained on the
\* editQueue of its own call.
TickBody(cl, g) ==
  /\ timeoutStatusMessage = 0 => CanCall(cl)
  /\ closure' =
       IF timeoutStatusMessage = 0 THEN SelfRestart(cl)
       ELSE IF content[timeoutStatusMessage] # RenderEmpty(now)
         THEN [cl EXCEPT ![g].editQueue = Append(@, RenderEmpty(now))]
         ELSE cl

\* The timer of the call g fires; the tick refreshes the member cache when
\* the last refresh of its call is more than 5000 ms old.
RestartTickFire(g) ==
  /\ closure[g].timer
  /\ now = closure[g].tickDue
  /\ fired < MaxTicks
  /\ ~RestartMicrotask
  /\ fired' = fired + 1
  /\ LET cl == [closure EXCEPT ![g].tickDue = now + MAIN_TICK_INTERVAL] IN
       IF now - closure[g].lastFullFetch > MAIN_FETCH_INTERVAL
         THEN closure' = [cl EXCEPT ![g].refreshing = @ \cup {now}]
         ELSE TickBody(cl, g)
  /\ UNCHANGED <<now, expiry, live, content, sent, timeoutStatusMessage, updateIntervalId,
                 editsInFlight, deletes>>
  /\ UNCHANGED restartUnused

\* await guild.members.fetch({force: true}).catch(() => {}) of the tick that
\* fired at t has answered; lastFullFetch = now, the now of that tick.
RestartRefreshDone(g, t) ==
  /\ t \in closure[g].refreshing
  /\ ~RestartMicrotask
  /\ TickBody([closure EXCEPT ![g].refreshing = @ \ {t}, ![g].lastFullFetch = t], g)
  /\ UNCHANGED <<now, expiry, live, content, sent, timeoutStatusMessage, updateIntervalId,
                 fired, editsInFlight, deletes>>
  /\ UNCHANGED restartUnused

\* await timeoutStatusMessage.edit(text) is called by the callback of g.
RestartEditCall(cl, g, text) ==
  /\ closure' = [cl EXCEPT ![g].epc = "editing", ![g].cur = text, ![g].editDue = 0,
                           ![g].target = timeoutStatusMessage]
  /\ editsInFlight' = editsInFlight + 1

\* The next callback chained on the editQueue of g, to its first await.
RestartEditStart(g) ==
  /\ closure[g].epc = "idle"
  /\ closure[g].editQueue # <<>>
  /\ LET text == Head(closure[g].editQueue)
         cl == [closure EXCEPT ![g].editQueue = Tail(@)] IN
       IF timeoutStatusMessage = 0
         THEN closure' = cl /\ UNCHANGED editsInFlight
         ELSE IF now - closure[g].lastEditTime < MAIN_EDIT_INTERVAL
           THEN /\ closure' = [cl EXCEPT ![g].epc = "spacing", ![g].cur = text,
                                         ![g].editDue = closure[g].lastEditTime + MAIN_EDIT_INTERVAL]
                /\ UNCHANGED editsInFlight
           ELSE RestartEditCall(cl, g, text)
  /\ UNCHANGED <<now, expiry, live, content, sent, timeoutStatusMessage, updateIntervalId,
                 fired, deletes>>
  /\ UNCHANGED restartUnused

\* The 500 ms are over. timeoutStatusMessage.edit on null throws a TypeError
\* that the catch logs.
RestartEditSpacingDone(g) ==
  /\ closure[g].epc = "spacing"
  /\ now = closure[g].editDue
  /\ ~RestartMicrotask
  /\ IF timeoutStatusMessage = 0
       THEN /\ closure' = [closure EXCEPT ![g].epc = "idle", ![g].cur = NoText, ![g].editDue = 0]
            /\ UNCHANGED editsInFlight
       ELSE RestartEditCall(closure, g, closure[g].cur)
  /\ UNCHANGED <<now, expiry, live, content, sent, timeoutStatusMessage, updateIntervalId,
                 fired, deletes>>
  /\ UNCHANGED restartUnused

\* The locals of g when its edit call has answered.
EditReturned(cl, g) == [cl EXCEPT ![g].epc = "idle", ![g].cur = NoText, ![g].target = 0]

\* The edit succeeded; lastEditTime = Date.now().
RestartEditOk(g) ==
  /\ closure[g].epc = "editing"
  /\ ~RestartMicrotask
  /\ closure[g].target \in live
  /\ content' = [content EXCEPT ![closure[g].target] = closure[g].cur]
  /\ closure' = [EditReturned(closure, g) EXCEPT ![g].lastEditTime = now]
  /\ editsInFlight' = editsInFlight - 1
  /\ UNCHANGED <<now, expiry, live, sent, timeoutStatusMessage, updateIntervalId, fired,
                 deletes>>
  /\ UNCHANGED restartUnused

\* The edit failed. On 10008 ("Unknown Message") the callback drops the
\* message and restarts; the wait after a 429 is longer than the time
\* observed here and is left to the reconciler of part_004.
RestartEditErrors == {10008, 50013}

RestartEditFail(g, code) ==
  /\ closure[g].epc = "editing"
  /\ ~RestartMicrotask
  /\ code = 10008 => closure[g].target \notin live /\ CanCall(closure)
  /\ IF code = 10008
       THEN /\ timeoutStatusMessage' = 0
            /\ closure' = SelfRestart(EditReturned(closure, g))
       ELSE /\ closure' = EditReturned(closure, g)
            /\ UNCHANGED timeoutStatusMessage
  /\ editsInFlight' = editsInFlight - 1
  /\ UNCHANGED <<now, expiry, live, content, sent, updateIntervalId, fired, deletes>>
  /\ UNCHANGED restartUnused

\* Somebody deletes a status message in the channel.
RestartDelete(id) ==
  /\ id \in live
  /\ deletes < MaxDeletes
  /\ ~RestartMicrotask
  /\ live' = live \ {id}
  /\ deletes' = deletes + 1
  /\ UNCHANGED <<now, expiry, content, sent, timeoutStatusMessage, updateIntervalId, closure,
                 fired, editsInFlight>>
  /\ UNCHANGED restartUnused

\* The pending timers and when they are due.
RestartTimersDue ==
  {closure[g].tickDue : g \in IF fired < MaxTicks THEN ActiveTimers ELSE {}}
    \cup {closure[g].editDue : g \in {h \in Starts : closure[h].epc = "spacing"}}

\* Time passes, to the next instant of the grid or to the next due timer,
\* never past a due timer.
RestartElapse(t) ==
  /\ t > now
  /\ ~RestartMicrotask
  /\ \A d \in RestartTimersDue : t <= d
  /\ \/ t = NextStep /\ NextStep <= Epoch + Horizon
     \/ t \in RestartTimersDue
  /\ now' = t
  /\ UNCHANGED <<expiry, live, content, sent, timeoutStatusMessage, updateIntervalId, closure,
                 fired, editsInFlight, deletes>>
  /\ UNCHANGED restartUnused

RestartNext ==
  \/ RestartReady
  \/ \E g \in Starts, found \in BOOLEAN : ChannelFetched(g, found)
  \/ \E g \in Starts : StartSent(g)
  \/ \E g \in Starts : RestartTickFire(g)
  \/ \E g \in Starts : \E t \in closure[g].refreshing : RestartRefreshDone(g, t)
  \/ \E g \in Starts : RestartEditStart(g)
  \/ \E g \in Starts : RestartEditSpacingDone(g)
  \/ \E g \in Starts : RestartEditOk(g)
  \/ \E g \in Starts, code \in RestartEditErrors : RestartEditFail(g, code)
  \/ \E id \in MessageIds : RestartDelete(id)
  \/ \E t \in {NextStep} \cup RestartTimersDue : RestartElapse(t)

Restarts == Init /\ [][RestartNext]_vars

\* =============================================================== claims
\* Positions, in submission order, of the tasks handed to callAPI.
SubmitIndex(t) == CHOOSE k \in 1..Len(submitted) : submitted[k] = t
WasSubmitted(t) == \E k \in 1..Len(submitted) : submitted[k] = t
SubmittedBefore(i, j) == WasSubmitted(i) /\ WasSubmitted(j) /\ SubmitIndex(i) < SubmitIndex(j)

\* The failed attempts the latest callback has logged, and their marks.
LogIndices == 1..Len(attemptLog)
Failures == {k \in LogIndices : ~attemptLog[k].ok}
IsTransientEntry(e) == ~e.ok /\ ~e.rate /\ ~e.quota
OwnResult(t) == ApiResult(t, input[t])

\* C1: tasks are dispatched in submission order: no attempt of a task has
\* started while the handle of a task submitted before it is unsettled.
C1_Fifo ==
  \A i, j \in Tasks :
    (SubmittedBefore(i, j) /\ logTask = j /\ dispatched > 0) => Settled(handle[i])

C1_Witness ==
  /\ Len(submitted) = 2
  /\ logTask = submitted[2]
  /\ gpc = "calling"
  /\ handle[submitted[1]].state = "rejected"
  /\ handle[submitted[1]].error = PersistentError

\* C2: the start times of two consecutive dispatch attempts are at least
\* MIN_REQUEST_INTERVAL (1000 ms) apart.
C2_Spacing == lastGap >= 1000

C2_Witness ==
  /\ Len(submitted) = 2
  /\ logTask = submitted[2]
  /\ gpc = "calling"
  /\ dispatched = 1
  /\ lastRequestElapsed = 0
  /\ handle[submitted[1]].state = "resolved"
  /\ lastGap = 1000

\* C3: at most one external call started by the gateway is outstanding,
\* calls abandoned at the 15 s timeout included.
Outstanding == (IF gpc = "calling" THEN 1 ELSE 0) + abandoned
C3_SingleOutstanding == Outstanding <= 1

C5_QuotaFatal ==
  \A k \in LogIndices :
    (~attemptLog[k].ok /\ attemptLog[k].quota)
      => /\ k = Len(attemptLog)
         /\ attemptLog[k].wait = 0
         /\ handle[logTask] = Rejected(QuotaError)
         /\ dispatched = k

\* C6: when callAPI rejects with the quota error, aiCheckEnabled is false
\* by the time the submitting caller returns, whichever caller it is.
C6_DegradedOnQuota ==
  [][\A t \in Tasks :
       (cpc[t] = "awaiting" /\ cpc'[t] = "returned" /\ handle[t] = Rejected(QuotaError))
         => aiCheckEnabled' = FALSE]_vars

\* C7: a task whose attempts all fail with transient errors is dispatched
\* exactly maxRetries = 5 times, waits 1000 ms after each of the first four
\* failures, and is then rejected with the error of its last attempt, the
\* gateway being free for the next queued task.
C7_BoundedTransient ==
  (logTask # 0 /\ attemptLog # <<>> /\ \A k \in LogIndices : IsTransientEntry(attemptLog[k]))
    => /\ Len(attemptLog) <= 5
       /\ dispatched <= 5
       /\ \A k \in LogIndices : k < 5 => attemptLog[k].wait = 1000
       /\ Len(attemptLog) < 5
            => handle[logTask] = Pending /\ running = logTask
       /\ Len(attemptLog) = 5
            => /\ dispatched = 5
               /\ attemptLog[5].wait = 0
               /\ handle[logTask] = Rejected(lastError)
               /\ running = 0
               /\ requestQueue # <<>> => ENABLED TaskStart

C7_Witness ==
  /\ logTask # 0
  /\ Len(attemptLog) = 5
  /\ \A k \in LogIndices : IsTransientEntry(attemptLog[k])
  /\ handle[logTask].state = "rejected"
  /\ handle[logTask].error = TimeoutError
  /\ requestQueue # <<>>

\* C8: within one task the delay waited after the k-th rate-limited attempt
\* is 1000 ms for k = 1, twice the previous one afterwards, at most
\* 30000 ms, and never smaller than the previous one.
RateEntries == SelectSeq(attemptLog, LAMBDA e : ~e.ok /\ e.rate)

C8_Backoff ==
  \A k \in 1..Len(RateEntries) :
    /\ k = 1 => RateEntries[k].wait = 1000
    /\ k > 1 => /\ RateEntries[k].wait = 2 * RateEntries[k - 1].wait
                /\ RateEntries[k].wait >= RateEntries[k - 1].wait
    /\ RateEntries[k].wait <= 30000

C8_Witness ==
  /\ Len(RateEntries) = 3
  /\ Len(attemptLog) = 3
  /\ RateEntries[3].wait = 4000

\* C9: a task whose external call succeeds on the first attempt is
\* dispatched exactly once and its handle resolves with the result of its
\* own call; no handle ever holds the result of another task.
C9_OneDispatchEach ==
  /\ (logTask # 0 /\ attemptLog # <<>> /\ attemptLog[1].ok)
       => /\ dispatched = 1
          /\ Len(attemptLog) = 1
          /\ handle[logTask] = Resolved(OwnResult(logTask))
  /\ \A t \in Tasks :
       /\ handle[t].state = "resolved" => handle[t].result = OwnResult(t)
       /\ (WasSubmitted(t) /\ t # logTask /\ ~Settled(handle[t]))
            => \E k \in 1..Len(requestQueue) : requestQueue[k] = t

C9_Witness ==
  /\ Len(submitted) = NTasks
  /\ \A t \in Tasks : handle[t] = Resolved(OwnResult(t))
  /\ logTask = submitted[NTasks]
  /\ dispatched = 1
  /\ attemptLog = <<LogEntry(TRUE, <<>>, 0)>>

\* C10: the handle of a task is decided by the outcomes of its own attempts
\* alone, whatever happened to the tasks queued before it, and it is never
\* settled without the task having been dispatched.
OwnOutcome(t) ==
  LET n == Len(attemptLog)
      last == attemptLog[n]
  IN  IF n = 0 THEN {Pending}
      ELSE IF last.ok THEN {Resolved(OwnResult(t))}
      ELSE IF last.rate
        THEN IF n < 3 THEN {Pending}
             ELSE IF gpc = "backoff" /\ running = t THEN {Pending}
             ELSE {Rejected(PersistentError)}
      ELSE IF last.quota THEN {Rejected(QuotaError)}
      ELSE IF n < 5 THEN {Pending}
      ELSE {Rejected(lastError)}

C10_Isolation ==
  logTask # 0 =>
    /\ handle[logTask] \in OwnOutcome(logTask)
    /\ Settled(handle[logTask]) => dispatched = Len(attemptLog) /\ dispatched >= 1

C10_Witness ==
  /\ Len(submitted) = 2
  /\ logTask = submitted[2]
  /\ handle[submitted[1]].state = "rejected"
  /\ handle[submitted[1]].error = TimeoutError
  /\ Len(attemptLog) = 2
  /\ handle[logTask] = Resolved(OwnResult(logTask))

\* C11: an attempt ended by the 15 s timer fails with "API Timeout" and is
\* treated as a transient failure: it counts as one of the 5 attempts and
\* is followed by the fixed 1000 ms wait (or, as the fifth, by the rejection
\* with that error), never by the backoff or the quota rejection.
TimedOutStep ==
  /\ gpc = "calling"
  /\ raceTimer = 0
  /\ Len(attemptLog') = Len(attemptLog) + 1
  /\ ~attemptLog'[Len(attemptLog')].ok
  /\ lastError' \notin ApiErrors

C11_TimeoutTransient ==
  [][TimedOutStep =>
       /\ lastError' = MkError(<<"API", "Timeout">>, 0)
       /\ IsTransientEntry(attemptLog'[Len(attemptLog')])
       /\ retries' = retries + 1
       /\ retries' <= 5
       /\ gpc' \notin {"backoff", "spacing", "calling"}
       /\ backoff' = backoff
       /\ IF retries' < 5
            THEN /\ gpc' = "pause" /\ timer' = 1000
                 /\ handle' = handle /\ running' = running
            ELSE /\ gpc' = "idle"
                 /\ handle'[running].state = "rejected"
                 /\ handle'[running].error.message = <<"API", "Timeout">>
                 /\ handle'[running].error.code = 0]_vars

C11_Witness ==
  /\ gpc = "pause"
  /\ timer = 1000
  /\ retries = 2
  /\ Len(attemptLog) = 2
  /\ attemptLog[1].rate
  /\ lastError = TimeoutError
  /\ handle[running] = Pending

\* A step of the event loop that needs no answer from the external call: a
\* due timer fires, time passes, a chained callback or a continuation runs.
LoopStep ==
  \/ TaskStart
  \/ SpacingDone
  \/ ApiTimeout
  \/ BackoffDone
  \/ PauseDone
  \/ \E t \in Tasks : CheckTextResume(t)
  \/ \E t \in Tasks : CheckImageResume(t)
  \/ \E dt \in Durations : Advance(dt)

\* The event loop keeps running while it has work.  Nothing is assumed of
\* the external call: it may never answer.
Fairness == WF_vars(LoopStep)

FairSpec == Spec /\ Fairness

\* C12: every handle returned by callAPI is eventually settled, whatever
\* the external calls do, and settled once: a settled handle never changes
\* again.  A handle is settled only by the callback of its own task after
\* at least one dispatch, so every submitted task is eventually dispatched.
C12_Liveness ==
  /\ <>[](\A t \in Tasks : handle[t] # Pending)
  /\ [][\A t \in Tasks :
          /\ Settled(handle[t]) => handle'[t] = handle[t]
          /\ (handle[t] = Pending /\ handle'[t] # Pending)
               => /\ Settled(handle'[t])
                  /\ logTask = t /\ running = t /\ dispatched >= 1]_vars

C12_Witness ==
  /\ \A t \in Tasks : cpc[t] = "returned"
  /\ handle[1] = Rejected(TimeoutError)
  /\ handle[2] = Rejected(PersistentError)
  /\ requestQueue = <<>>
  /\ running = 0

\* C26: when the promise of callAPI rejects, for whatever reason,
\* checkTextContent returns (it does not throw) the verdict of the keyword
\* check on its text: malicious exactly if the text, in lower case,
\* contains a bad keyword.
C26_KeywordFallback ==
  [][\A t \in Tasks :
       (cpc[t] = "awaiting" /\ input[t].kind = "text" /\ handle[t].state = "rejected"
          /\ cpc'[t] # "awaiting")
         => /\ cpc'[t] = "returned"
            /\ ret'[t].isMalicious
                 = (\E i \in DOMAIN input[t].text : ToLowerWord(input[t].text[i]) \in BAD_KEYWORDS)
            /\ ret'[t].reason = (IF ret'[t].isMalicious THEN "keyword" ELSE "no keyword")
            /\ ~ret'[t].skipped]_vars

C26_Witness ==
  /\ cpc[1] = "returned"
  /\ input[1].kind = "text"
  /\ handle[1] = Rejected(TimeoutError)
  /\ ret[1] = [isMalicious |-> TRUE, reason |-> "keyword", skipped |-> FALSE]
  /\ aiCheckEnabled

\* C31: a task is rejected with "Rate limit persistent" only after at
\* least three of its own attempts have failed with a rate-limit error.
C31_PersistentRateLimit ==
  (logTask # 0 /\ handle[logTask] = Rejected(PersistentError))
    => Len(RateEntries) >= 3

\* C37: no task is dispatched more than 5 times, and a task whose failed
\* attempts were all rate-limit errors is dispatched at most 3 times.
C37_AttemptBound ==
  /\ dispatched <= 5
  /\ (logTask # 0 /\ Len(RateEntries) = Cardinality(Failures)) => dispatched <= 3

C37_Witness ==
  /\ dispatched = 5
  /\ Len(attemptLog) = 5
  /\ attemptLog[1].rate
  /\ ~attemptLog[2].rate /\ ~attemptLog[2].ok
  /\ handle[logTask].state = "rejected"

\* C39: while aiCheckEnabled is false the message handler submits no
\* task to callAPI, neither for a text nor for an image.
C39_NoTrafficWhileDegraded ==
  [][~aiCheckEnabled => submitted' = submitted]_vars

\* ------------------------------------------------ claims: the reconciler
\* Steps of the reconciler the claims speak of.
EditNotFound == editsInFlight' < editsInFlight /\ editAnswer' = 10008
TickSendAnswered(k) == tpc[k] = "send" /\ tpc'[k] # "send"
StartupFetchAnswered == upc = "fetch" /\ upc' # "fetch"
TickEnqueues == Len(editQueue') > Len(editQueue)
EditCallStarts == editsInFlight' > editsInFlight
Renders == lastRender' # lastRender
TicksInFlight == {k \in Ticks : tpc[k] \in {"refresh", "caught", "fetch", "send"}}
TickSends == {k \in Ticks : tpc[k] = "send"}

\* C13: an edit that fails with "not found" clears the reference held and
\* the persisted identifier; a tick that then finds no message sends a new
\* one and persists its identifier; a process that starts while the
\* persisted message exists takes that message up again, sends nothing and
\* leaves the persisted identifier as it is.
C13_SurfaceRecovery ==
  [][/\ EditNotFound => timeoutStatusMessage' = 0 /\ statusStore' = 0
     /\ \A k \in Ticks :
          /\ (Renders /\ lastRender'.tick = k /\ timeoutStatusMessage = 0 /\ statusStore = 0)
               => tpc'[k] = "send"
          /\ TickSendAnswered(k)
               => /\ sent' = sent + 1
                  /\ sent' \in live'
                  /\ statusStore' = sent'
                  /\ timeoutStatusMessage' = sent'
     /\ (StartupFetchAnswered /\ usaved \in live)
          => /\ timeoutStatusMessage' = usaved
             /\ statusStore' = statusStore
             /\ sent' = sent
             /\ upc' = "run"]_vars

\* C14: at most one tick has a replacement send under way, so a missing
\* message is replaced by one message only, also when further ticks fire
\* while the send is in flight.
C14_NoDuplicates == Cardinality(TickSends) <= 1

\* C15: at most one tick callback is in flight (suspended at the member
\* refresh or at the re-creation of the message).
C15_TickNonOverlap == Cardinality(TicksInFlight) <= 1

\* C16: at most one edit call is outstanding; the callback of an edit
\* starts only when no earlier one is still running, and it is the callback
\* of the edit enqueued earliest.
C16_SingleWriter ==
  /\ [](editsInFlight <= 1)
  /\ [](epc \in {"spacing", "editing", "cooldown"} => editsInFlight = (IF epc = "editing" THEN 1 ELSE 0))
  /\ [][/\ Len(editQueue') < Len(editQueue)
             => /\ epc = "idle" /\ editsInFlight = 0
                /\ editQueue' = Tail(editQueue)
                /\ cur' \in {NoEdit, Head(editQueue)}
        /\ EditCallStarts => editsInFlight = 0 /\ epc \in {"idle", "spacing"}]_vars

C16_Witness ==
  /\ epc = "editing"
  /\ editsInFlight = 1
  /\ Len(editQueue) = 1
  /\ editAnswer = 429
  /\ cur.tick = 2

\* C17: edit calls are started in the order their ticks fired.
C17_TickOrder ==
  [][EditCallStarts => lastStartTick' > lastStartTick]_vars

\* C18: two consecutive edit calls are started at least 700 ms apart.
C18_EditSpacing == editGap >= 700

\* C19: a tick that renders the text the tick before it rendered enqueues
\* no edit.
C19_DiffSkips ==
  [][(Renders /\ lastRender.tick # 0 /\ lastRender'.tick = lastRender.tick + 1
        /\ lastRender'.text = lastRender.text)
       => ~TickEnqueues]_vars

\* C20 as stated: two renders of the same set of live records give the
\* same text.
C20_SameSetSameText ==
  [][(Renders /\ lastRender.tick # 0
        /\ {lastRender'.records[i].member : i \in DOMAIN lastRender'.records}
             = {lastRender.records[i].member : i \in DOMAIN lastRender.records})
       => lastRender'.text = lastRender.text]_vars

\* C20 as amended: the text is determined by the live records with their
\* remaining seconds together with the second of the render; with no live
\* record it is the empty-state text carrying that second.
C20_RenderDetermined ==
  [][Renders =>
       /\ lastRender'.text.stamp = now \div 1000
       /\ lastRender'.records = <<>>
            => lastRender'.text = [head |-> "empty", entries |-> <<>>, stamp |-> now \div 1000]
       /\ lastRender'.records # <<>>
            => /\ lastRender'.text.head = "list"
               /\ Len(lastRender'.text.entries) = Len(lastRender'.records)
       /\ (lastRender.tick # 0 /\ lastRender'.records = lastRender.records)
            => [lastRender'.text EXCEPT !.stamp = 0] = [lastRender.text EXCEPT !.stamp = 0]
       /\ (lastRender.tick # 0 /\ lastRender'.records = lastRender.records
             /\ lastRender.text.stamp = now \div 1000)
            => lastRender'.text = lastRender.text]_vars

C20_Witness ==
  /\ lastRender.tick = 3
  /\ lastRender.records = <<>>
  /\ lastRender.text = [head |-> "empty", entries |-> <<>>, stamp |-> 103]
  /\ content[1] = [head |-> "empty", entries |-> <<>>, stamp |-> 102]

\* C23: at startup a message is sent only if no identifier is persisted or
\* the message it names is gone; a persisted message that exists is taken
\* up again, nothing is sent and the persisted identifier stays as it is.
C23_StartupResume ==
  [][/\ (upc = "send" /\ upc' = "run") => (usaved = 0 \/ usaved \notin live)
     /\ (upc = "fetch" /\ upc' # "fetch" /\ usaved \in live)
          => /\ upc' = "run"
             /\ timeoutStatusMessage' = usaved
             /\ statusStore' = usaved
             /\ live' = live]_vars

\* C24: a refresh of the members that fails counts as not done
\* (lastFullFetch stays), doubles the refresh backoff up to 60000 ms, and
\* the tick renders from the cached members; one that succeeds sets the
\* backoff to 2000 ms again.
C24_RefreshBackoff ==
  [][\A k \in Ticks :
       /\ (tpc[k] = "caught" /\ tpc'[k] # "caught")
            => /\ lastFullFetch' = lastFullFetch
               /\ fetchBackoff' = Min(2 * fetchBackoff, 60000)
               /\ lastRender'.tick = k
               /\ lastRender'.text = Render(expiry, now)
       /\ (tpc[k] = "refresh" /\ tpc'[k] \notin {"refresh", "caught"})
            => /\ fetchBackoff' = 2000
               /\ lastRender'.tick = k
               /\ lastRender'.text = Render(expiry, now)]_vars

\* C25: an edit answered with 429 starts a cooldown of 5000 ms; until it
\* is over no edit call is started, and neither the handling of the 429
\* nor the end of the cooldown clears the message held or the persisted
\* identifier or sends a message.
EditRateLimited == editsInFlight' < editsInFlight /\ editAnswer' = 429

C25_EditCooldown ==
  /\ [](epc = "cooldown" => now <= editDue /\ editsInFlight = 0)
  /\ [][/\ EditRateLimited
              => /\ epc' = "cooldown"
                 /\ editDue' = now + 5000
                 /\ timeoutStatusMessage' = timeoutStatusMessage
                 /\ timeoutStatusMessage' # 0
                 /\ statusStore' = statusStore
                 /\ sent' = sent
        /\ epc = "cooldown"
              => /\ ~EditCallStarts
                 /\ epc' = "cooldown" => editDue' = editDue
                 /\ epc' # "cooldown"
                      => /\ now = editDue
                         /\ timeoutStatusMessage' = timeoutStatusMessage
                         /\ statusStore' = statusStore
                         /\ sent' = sent]_vars

C25_Witness ==
  /\ epc = "cooldown"
  /\ now = editDue
  /\ editAnswer = 429
  /\ editQueue # <<>>
  /\ timeoutStatusMessage # 0
  /\ statusStore = timeoutStatusMessage

\* ------------------------------------------------- claims: the render
\* What a line of the list shows: the remaining seconds behind the
\* formatted time, and the place of its member in the cache.
EntrySeconds(e) == e.time.h * 3600 + e.time.m * 60 + e.time.s
CacheIndex(tag) == CHOOSE i \in DOMAIN MemberCache : MemberCache[i] = tag

\* C21: the list holds the live records sorted by remaining seconds,
\* longest first; records of equal remaining seconds keep their order in
\* the member cache; the lines are numbered 1..n in that order.
C21_RenderOrder ==
  LET es == lastRender.text.entries IN
  /\ Len(es) = Len(lastRender.records)
  /\ {es[i].tag : i \in DOMAIN es} = {lastRender.records[i].member : i \in DOMAIN lastRender.records}
  /\ \A i, j \in DOMAIN es :
       /\ es[i].pos = i
       /\ i < j => \/ EntrySeconds(es[i]) > EntrySeconds(es[j])
                   \/ /\ EntrySeconds(es[i]) = EntrySeconds(es[j])
                      /\ CacheIndex(es[i].tag) < CacheIndex(es[j].tag)

C21_Witness ==
  /\ now = Epoch
  /\ expiry = [m \in MemberTags |-> IF m = "a" THEN Epoch + 5000
                                    ELSE IF m = "b" THEN Epoch + 120000 ELSE Epoch + 30000]
  /\ Len(lastRender.text.entries) = 3
  /\ [i \in 1..3 |-> lastRender.text.entries[i].tag] = <<"b", "c", "a">>
  /\ [i \in 1..3 |-> EntrySeconds(lastRender.text.entries[i])] = <<120, 30, 5>>

\* C22: a member is listed exactly if its expiry is later than the time of
\* the render; a listed remaining time is the time to the expiry rounded
\* up to whole seconds, at least 1.
C22_ExpiredExcluded ==
  lastRender.tick # 0 =>
    LET es == lastRender.text.entries IN
    /\ \A m \in MemberTags : (\E i \in DOMAIN es : es[i].tag = m) <=> expiry[m] > now
    /\ \A i \in DOMAIN es :
         /\ EntrySeconds(es[i]) >= 1
         /\ EntrySeconds(es[i]) * 1000 >= expiry[es[i].tag] - now
         /\ (EntrySeconds(es[i]) - 1) * 1000 < expiry[es[i].tag] - now

C22_Witness ==
  /\ now = Epoch
  /\ expiry = [m \in MemberTags |-> IF m = "a" THEN Epoch
                                    ELSE IF m = "b" THEN Epoch + 1 ELSE 0]
  /\ Len(lastRender.text.entries) = 1
  /\ lastRender.text.entries[1].tag = "b"
  /\ EntrySeconds(lastRender.text.entries[1]) = 1

\* ------------------------------------------------------- claims: shutdown
\* The SIGTERM handler has cancelled the interval timer.
TimerCancelled == spc # "idle" /\ upc = "run" /\ ~updateInterval
TickStarts == fired' # fired \/ \E k \in Ticks : tpc[k] = "unfired" /\ tpc'[k] # "unfired"

\* C27: the SIGTERM handler cancels the interval timer in its first step,
\* before its first await; no step of the handler chains an edit or starts
\* an edit call; once the timer is cancelled no tick callback starts.
C27_Shutdown ==
  [][/\ (spc = "idle" /\ spc' # "idle")
          => /\ spc' = "log"
             /\ ~updateInterval'
             /\ editQueue' = editQueue /\ editsInFlight' = editsInFlight
     /\ (spc = "log" /\ spc' # "log")
          => editQueue' = editQueue /\ editsInFlight' = editsInFlight
     /\ TimerCancelled => ~TickStarts]_vars

C27_Witness ==
  /\ spc = "log"
  /\ TimerCancelled
  /\ fired = 1
  /\ now > tickDue

\* ------------------------------------------------- claims: src/main.mjs
\* C28: second revision.  A call of the classifier that is awaited ends, by
\* its answer or by a timeout, so that the callback leaves the await of
\* apiFunc.
C28_CallTimeout == (gpc = "calling") ~> (gpc # "calling")

\* An attempt has ended with an error that is not a rate limit.
TransientFailure ==
  gpc = "waiting" /\ HasMessage(lastError) /\ ~MainIsRateLimit(2, lastError.message)
Queued(t) == \E i \in DOMAIN requestQueue : requestQueue[i] = t

\* C29: if every attempt of the first task fails with an error that is not
\* a rate limit, the handle of the task fails after finitely many attempts
\* and a task submitted after it is dispatched.
C29_BoundedRetry ==
  [](running = 1 /\ gpc = "calling" => <>(running = 1 /\ TransientFailure))
    => /\ (handle[1].state = "pending") ~> (handle[1].state = "rejected")
       /\ Queued(2) ~> ~Queued(2)

\* C30: first revision.  No handle is ever rejected; an attempt that ends
\* without a result, whatever was thrown, leaves the callback waiting for
\* the next attempt of the same task, which follows the wait; an attempt
\* that succeeds resolves the handle with its result and frees the queue.
C30_RetryUntilResult ==
  /\ [](\A t \in Tasks : handle[t].state # "rejected")
  /\ [][/\ (gpc = "calling" /\ gpc' # "calling")
             => \/ /\ handle'[running] = Resolved(ApiResult(running, input[running]))
                   /\ gpc' = "idle"
                \/ /\ handle' = handle
                   /\ gpc' = "waiting"
                   /\ running' = running
        /\ (gpc = "waiting" /\ gpc' # "waiting")
             => running' = running /\ gpc' \in {"spacing", "calling"}]_vars


\* ------------------------------------------- claims: the per-user cooldown
\* C32: a text classification is submitted to callAPI for a user only if
\* the latest submission for that user lies at least AI_CHECK_COOLDOWN
\* (10 s) back.
C32_UserCooldown ==
  [][\A t \in Tasks, u \in Users :
       (cpc[t] = "new" /\ cpc'[t] = "awaiting" /\ started'[t].user = u)
         => lastSubmitAt[u] = 0 \/ now - lastSubmitAt[u] >= 10000]_vars


\* ------------------------------------------------ claims: the voice rule
\* C33: a message of a non-bot, non-whitelisted author is skipped by the
\* voice rule only if the author is in a voice channel and
\* voiceUserAICheck is off; an author who is in no voice channel, be the
\* member cached or not, is passed on to classification.
C33_VoiceSkip ==
  [][\A t \in Tasks :
       (cpc[t] = "new" /\ cpc'[t] # "new" /\ ~author'[t].bot /\ author'[t].guild
          /\ author'[t].username \notin WHITELIST_USERS)
         => /\ cpc'[t] = "voice skip"
                 => author'[t].member = "in voice" /\ ~voiceUserAICheck
            /\ author'[t].member # "in voice" => cpc'[t] = "classify"]_vars


\* ------------------------ claims: src/main.mjs, updateRealtimeTimeout
\* C34: for each deletion of the status message exactly one replacement is
\* sent: besides the first message, no more messages are sent than messages
\* were deleted, also when a tick in flight resumes during the restart.
C34_SingleReplacement == sent <= 1 + deletes

\* C35: at most one edit call is outstanding at any time, also after a
\* self-restart: the queues of two calls never have an edit call in flight
\* together.
C35_SingleWriter == Cardinality({g \in Starts : closure[g].epc = "editing"}) <= 1

\* C36: at most one interval timer is active, and it is the stored one:
\* every start clears the timer stored before it installs its own.
C36_SingleTimer ==
  /\ Cardinality(ActiveTimers) <= 1
  /\ ActiveTimers \subseteq {updateIntervalId}

\* Two calls have installed a timer after the first one, and one is active.
C36_Witness ==
  /\ \A g \in Starts : closure[g].pc = "set"
  /\ ActiveTimers = {updateIntervalId}
  /\ updateIntervalId > 1

\* ----------------------- claims: the reconciler, the persisted identifier
\* No call of ensureTimeoutStatusMessage is in progress: the startup has
\* returned and no tick is suspended in it.
NoCreationInProgress ==
  /\ upc = "run"
  /\ \A k \in Ticks : tpc[k] \notin {"fetch", "send"}

PendingEdits == Len(editQueue) + (IF epc = "idle" THEN 0 ELSE 1)

\* C40 (its bound on the queue): the pending edits do not accumulate; fewer
\* edits are pending than ticks are observed, however many that are.
C40_PendingBounded == PendingEdits < MaxTicks

====
